---- MODULE Spec2Model ----
(***************************************************************************)
(* Decision gating and order execution of AI-Money-Agent.                  *)
(*                                                                         *)
(* One trading cycle is the node chain of workflow.py:                     *)
(*   update_market_data -> update_historical_analysis -> decision node     *)
(*   -> execute_trade -> calculate_performance                             *)
(* The decision node is graph.py get_decision, execute_trade calls         *)
(* execute_trade_order and set_stop_loss_take_profit of                    *)
(* tools/exchange_data_tool.py.                                            *)
(*                                                                         *)
(* Python dicts and pydantic objects are functions from key names to       *)
(* values; reading a key or attribute that is absent raises, which the     *)
(* operators below model as the `raised' outcome of the step.              *)
(***************************************************************************)
EXTENDS Integers, Sequences, FiniteSets, TLC

VARIABLES
    pc,      \* the node of workflow.py that runs next
    state,   \* the AgentState carried through the cycle and across cycles
    apiKey,  \* whether the exchange handle carries API credentials
    oracle,  \* what structured_llm.invoke returned in this cycle
    calls,   \* the state-changing exchange calls issued in this cycle
    result,  \* what the execute stage of this cycle obtained
    cycle,   \* the number of cycles started
    verdict, \* what validate_trend_consistency returned, when it was called
    fill,    \* the locals of _resolve_order_fill, when it runs
    fetch,   \* the locals of get_market_data, when it runs
    main,    \* the locals of main.py main and what it has logged
    config   \* the environment read by config.py and what it made of it

vars == <<pc, state, apiKey, oracle, calls, result, cycle, verdict, fill,
          fetch, main, config>>

(***************************************************************************)
(* Bounds of the model.                                                    *)
(***************************************************************************)
MaxCycles == 2

(***************************************************************************)
(* Configuration (config.py).                                              *)
(***************************************************************************)
MIN_EQUITY_FOR_MULTI_ASSET == 30

TRADING_COINS == <<"BTC", "ETH", "SOL">>

LOW_EQUITY_COINS == <<"DOGE">>

SeqToSet(s) == {s[i] : i \in DOMAIN s}

(***************************************************************************)
(* schemas.py: the Literal types of TradingDecision.                       *)
(***************************************************************************)
Signals == {"buy_to_enter", "sell_to_enter", "hold", "close"}

EntrySignals == {"buy_to_enter", "sell_to_enter"}

SchemaCoins == {"BTC", "ETH", "SOL", "BNB", "BGB", "DOGE", "SUI", "LTC"}

(***************************************************************************)
(* What the oracle (structured_llm.invoke) can hand back: the call raises  *)
(* (ok = FALSE), or it produces the arguments of a TradingDecision, which  *)
(* pydantic then validates.  Confidence is in percent.  A justification is *)
(* the sequence of its parts; "oracle" is the oracle's own text.           *)
(***************************************************************************)
OracleCoins == {"BTC", "DOGE", "XRP"}

OracleValues ==
    [ok : {TRUE}, signal : Signals, coin : OracleCoins, quantity : {0, 5},
     leverage : {1, 5}, tp : {0, 110}, sl : {0, 90}, confidence : {50, 80},
     justification : {<<"oracle">>}]

OracleRaises ==
    [ok |-> FALSE, signal |-> "hold", coin |-> "BTC", quantity |-> 0,
     leverage |-> 1, tp |-> 0, sl |-> 0, confidence |-> 0,
     justification |-> <<>>]

OracleOutputs == OracleValues \cup {OracleRaises}

NoOracle == [OracleRaises EXCEPT !.signal = "none"]

(***************************************************************************)
(* schemas.py TradingDecision: field constraints and validate_decision.    *)
(* SchemaConforms is FALSE where pydantic raises a validation error.       *)
(***************************************************************************)
SchemaConforms(raw) ==
    /\ raw.signal \in Signals
    /\ raw.coin \in SchemaCoins
    /\ raw.quantity >= 0
    /\ raw.leverage >= 1 /\ raw.leverage <= 20
    /\ raw.tp >= 0 /\ raw.sl >= 0
    /\ raw.confidence >= 0 /\ raw.confidence <= 100
    /\ raw.signal \in EntrySignals =>
          /\ raw.tp > 0
          /\ raw.sl > 0
          /\ raw.quantity > 0

\* The same object with the trigger fields under the names get_decision reads.
TradingDecisionRenamed(raw) ==
    [k \in {"signal", "coin", "quantity", "leverage", "profit_target",
            "stop_loss", "confidence", "justification"} |->
        CASE k = "signal" -> raw.signal
          [] k = "coin" -> raw.coin
          [] k = "quantity" -> IF raw.signal = "hold" THEN 0 ELSE raw.quantity
          [] k = "leverage" -> IF raw.signal = "hold" THEN 1 ELSE raw.leverage
          [] k = "profit_target" -> raw.tp
          [] k = "stop_loss" -> raw.sl
          [] k = "confidence" -> raw.confidence
          [] OTHER -> raw.justification]

\* The validated TradingDecision object: its attributes are the schema's fields;
\* validate_decision has zeroed the quantity and reset the leverage of a hold.
TradingDecision(raw) ==
    [k \in {"signal", "coin", "quantity", "leverage", "take_profit_price",
            "stop_loss_price", "confidence", "justification"} |->
        CASE k = "signal" -> raw.signal
          [] k = "coin" -> raw.coin
          [] k = "quantity" -> IF raw.signal = "hold" THEN 0 ELSE raw.quantity
          [] k = "leverage" -> IF raw.signal = "hold" THEN 1 ELSE raw.leverage
          [] k = "take_profit_price" -> raw.tp
          [] k = "stop_loss_price" -> raw.sl
          [] k = "confidence" -> raw.confidence
          [] OTHER -> raw.justification]

HasAttr(d, a) == a \in DOMAIN d

\* The fallback hold with its triggers under the schema's field names.
FallbackDecisionSchemaKeys ==
    [k \in {"signal", "coin", "quantity", "leverage", "take_profit_price",
            "stop_loss_price", "confidence", "justification"} |->
        CASE k = "signal" -> "hold"
          [] k = "coin" -> ""
          [] k = "quantity" -> 0
          [] k = "leverage" -> 1
          [] k = "take_profit_price" -> 0
          [] k = "stop_loss_price" -> 0
          [] k = "confidence" -> 0
          [] OTHER -> <<"error">>]

(***************************************************************************)
(* graph.py get_decision, lines 173-187: the hold every exception of the   *)
(* decision stage falls back to.                                           *)
(***************************************************************************)
FallbackDecision ==
    [k \in {"signal", "coin", "quantity", "leverage", "profit_target",
            "stop_loss", "confidence", "justification"} |->
        CASE k = "signal" -> "hold"
          [] k = "coin" -> ""
          [] k = "quantity" -> 0
          [] k = "leverage" -> 1
          [] k = "profit_target" -> 0
          [] k = "stop_loss" -> 0
          [] k = "confidence" -> 0
          [] OTHER -> <<"error">>]

\* lines 114-125: an entry whose trigger attributes are not positive becomes a hold.
NormalizeTriggers(d) ==
    IF d["signal"] \in EntrySignals
          /\ (d["profit_target"] <= 0 \/ d["stop_loss"] <= 0)
    THEN [d EXCEPT !["signal"] = "hold", !["coin"] = "", !["quantity"] = 0,
                   !["leverage"] = 1, !["profit_target"] = 0,
                   !["stop_loss"] = 0,
                   !["justification"] = <<"system_fix">> \o @]
    ELSE d

\* lines 139-168: an entry on a coin outside active_trading_coins becomes a hold.
ActiveSymbolGate(d, active_coins) ==
    IF d["signal"] \in EntrySignals /\ d["coin"] \notin SeqToSet(active_coins)
    THEN [d EXCEPT !["signal"] = "hold", !["coin"] = "", !["quantity"] = 0,
                   !["justification"] = <<"system_limit">> \o @]
    ELSE d

\* A decision stage that stores the validated object under the schema's field
\* names, the keys the execute stage reads.
get_decision_model_dump(st, out) ==
    IF ~out.ok \/ ~SchemaConforms(out)
    THEN FallbackDecision
    ELSE ActiveSymbolGate(TradingDecision(out), st.active_trading_coins)

\* get_decision, lines 31-189: the value stored in state["decision"].
\* Line 112 raises when the oracle call fails or its output does not validate;
\* lines 116 and 134 read decision.profit_target and decision.stop_loss, which
\* raises when the object has no such attribute; every exception ends in the
\* fallback of lines 173-187.
get_decision(st, out) ==
    IF ~out.ok \/ ~SchemaConforms(out)
    THEN FallbackDecision
    ELSE LET decision == TradingDecision(out)
         IN  IF ~HasAttr(decision, "profit_target")
                   \/ ~HasAttr(decision, "stop_loss")
             THEN FallbackDecision
             ELSE ActiveSymbolGate(NormalizeTriggers(decision),
                                   st.active_trading_coins)

(***************************************************************************)
(* Market data of one gather stage: per coin of TRADING_COINS the 4h       *)
(* indicators read back by trend validation, or "missing" when the coin's  *)
(* block or a required indicator is absent from the formatted text.        *)
(***************************************************************************)
EmptyDict == [k \in {} |-> 0]

IndMissing ==
    [avail |-> FALSE, ema20 |-> 0, ema50 |-> 0, macd |-> 0, rsi |-> 50]

IndUp == [avail |-> TRUE, ema20 |-> 2, ema50 |-> 1, macd |-> 1, rsi |-> 50]

IndDown ==
    [avail |-> TRUE, ema20 |-> 1, ema50 |-> 2, macd |-> -1, rsi |-> 20]

IndMixed ==
    [avail |-> TRUE, ema20 |-> 2, ema50 |-> 1, macd |-> -1, rsi |-> 50]

Indicators == {IndMissing, IndUp, IndDown, IndMixed}

MarketSnapshots ==
    {md \in [SeqToSet(TRADING_COINS) -> Indicators] :
        md["ETH"] = md["SOL"] /\ md["ETH"] \in {md["BTC"], IndUp}}

(***************************************************************************)
(* exchange_data_tool.py get_account_balance, lines 226-260: the fetched   *)
(* balance with credentials, and the default 10000 without credentials or  *)
(* when the fetch raises.  `fetched' is 0 - 1 when the fetch raises.       *)
(***************************************************************************)
DefaultBalance == 10000

FetchRaises == 0 - 1

get_account_balance(hasKey, fetched) ==
    IF hasKey /\ fetched # FetchRaises THEN fetched ELSE DefaultBalance

EquityValues == {3, 30}

BalanceFetches == EquityValues \cup {FetchRaises}

(***************************************************************************)
(* utils/market.py update_market_data, lines 12-181.  `md' is the market   *)
(* data of this cycle, or EmptyDict when get_market_data raises, in which  *)
(* case the except branch of lines 177-179 only advances the clock: the    *)
(* tier, the active coins and the account value were already stored.       *)
(***************************************************************************)
\* A gather stage that computes the tier once and keeps the active coins of
\* the earlier cycle afterwards.
update_market_data_once(st, hasKey, fetched, md) ==
    LET account_equity == get_account_balance(hasKey, fetched)
        low == account_equity < MIN_EQUITY_FOR_MULTI_ASSET
        stored ==
            [st EXCEPT
                !.active_trading_coins =
                    IF @ # <<>> THEN @
                    ELSE IF low THEN LOW_EQUITY_COINS ELSE TRADING_COINS,
                !.account_value = account_equity]
    IN  IF md = EmptyDict
        THEN [stored EXCEPT !.minutes_elapsed = @ + 3]
        ELSE [stored EXCEPT !.market_data = md, !.minutes_elapsed = @ + 3]

update_market_data(st, hasKey, fetched, md) ==
    LET account_equity == get_account_balance(hasKey, fetched)
        low == account_equity < MIN_EQUITY_FOR_MULTI_ASSET
        tiered ==
            IF low
            THEN IF ~st.low_equity_mode_logged
                 THEN [st EXCEPT !.low_equity_mode_logged = TRUE,
                                 !.low_equity_mode = TRUE]
                 ELSE st
            ELSE IF st.low_equity_mode
                 THEN [st EXCEPT !.low_equity_mode = FALSE,
                                 !.low_equity_mode_logged = FALSE]
                 ELSE st
        stored ==
            [tiered EXCEPT
                !.active_trading_coins =
                    IF low THEN LOW_EQUITY_COINS ELSE TRADING_COINS,
                !.account_value = account_equity]
    IN  IF md = EmptyDict
        THEN [stored EXCEPT !.minutes_elapsed = @ + 3]
        ELSE [stored EXCEPT !.market_data = md, !.minutes_elapsed = @ + 3]

(***************************************************************************)
(* workflow.py initialize_agent_state, lines 88-108.                       *)
(***************************************************************************)
initialize_agent_state(dry_run) ==
    [minutes_elapsed |-> 0,
     market_data |-> EmptyDict,
     decision |-> EmptyDict,
     account_value |-> 3,
     trade_history |-> <<>>,
     dry_run |-> dry_run,
     active_trading_coins |-> <<>>,
     low_equity_mode |-> FALSE,
     low_equity_mode_logged |-> FALSE]

(***************************************************************************)
(* Amounts are counted in ticks of 0.0001 coin, the finest step of the     *)
(* BITGET_MIN_AMOUNTS table; prices and balances are whole USDT.           *)
(***************************************************************************)
RECURSIVE Pow10(_)
Pow10(n) == IF n = 0 THEN 1 ELSE 10 * Pow10(n - 1)

AmountDigits == 4

TicksPerCoin == Pow10(AmountDigits)

\* exchange_data_tool.py get_market_limits, lines 372-380 (in ticks), with the
\* default 0.1 of BITGET_MIN_AMOUNTS.get(symbol, 0.1).
BITGET_MIN_AMOUNTS(coin) ==
    CASE coin = "BTC" -> 1
      [] coin = "ETH" -> 10
      [] coin = "LTC" -> 100
      [] coin \in {"SOL", "SUI"} -> 1000
      [] coin \in {"BGB", "DOGE"} -> 10000
      [] OTHER -> 1000

FallbackPrecision == 3

\* What exchange.market(symbol) reports: ok = FALSE when load_markets or market
\* raises; min = 0 when the exchange reports no minimum amount.
MarketInfos ==
    {[ok |-> FALSE, min |-> 0, prec |-> 0]}
        \cup [ok : {TRUE}, min : {0, 10}, prec : {0, 3}]

\* get_market_limits, lines 360-412: the resolved minimum and amount precision.
get_market_limits(coin, mk) ==
    IF ~mk.ok
    THEN [min_amount |-> BITGET_MIN_AMOUNTS(coin),
          amount_precision |-> FallbackPrecision]
    ELSE [min_amount |-> IF mk.min = 0 THEN BITGET_MIN_AMOUNTS(coin) ELSE mk.min,
          amount_precision |-> mk.prec]

\* Nearest integer to num/den, ties to the even neighbour (Python's round on
\* exactly represented values).
RoundHalfEven(num, den) ==
    LET q == num \div den
        r == num % den
    IN  IF 2 * r < den THEN q
        ELSE IF 2 * r > den THEN q + 1
        ELSE IF q % 2 = 0 THEN q ELSE q + 1

\* round(x, int(amount_precision)) of the amount num/den ticks.
RoundAmountTruncating(num, den, precision) ==
    LET grid == Pow10(AmountDigits - precision)
    IN  (num \div (den * grid)) * grid

RoundAmount(num, den, precision) ==
    LET grid == Pow10(AmountDigits - precision)
    IN  RoundHalfEven(num, den * grid) * grid

(***************************************************************************)
(* Results of execute_trade_order and the exchange calls it made.  An      *)
(* outcome is one possible return of the function together with the        *)
(* state-changing exchange calls issued on the way and the minimum amount  *)
(* the function resolved (0 when it returned before resolving it).         *)
(***************************************************************************)
TradeResult(success, order_id, side, quantity, error, simulated) ==
    [success |-> success, order_id |-> order_id, side |-> side,
     quantity |-> quantity, error |-> error, simulated |-> simulated]

Failure(error) == TradeResult(FALSE, FALSE, "none", 0, error, FALSE)

NoResult == TradeResult(FALSE, FALSE, "none", 0, "not_called", FALSE)

\* What the function read from the exchange on its way: the ticker and the
\* free balance of the minimum adjustment (lines 544-550) and of the margin
\* check (lines 711-718).  A read that raised shows as FetchRaises.  Then how
\* set_leverage (line 651) and create_order (lines 753, 771, 804) ended, and
\* the positions get_positions returned at line 789.
Unread == 0 - 2

NoReads ==
    [min_price |-> Unread, min_free |-> Unread, margin_price |-> Unread,
     margin_free |-> Unread, margin_quantity |-> Unread,
     amount_precision |-> Unread, leverage_reply |-> "none",
     order_reply |-> "none", positions_read |-> FALSE, positions |-> <<>>]

Outcome(res, cs, min_amount) ==
    [res |-> res, calls |-> cs, min_amount |-> min_amount, seen |-> NoReads]

SawAtMinimum(outcomes, price, fetched) ==
    {[o EXCEPT !.seen.min_price = price, !.seen.min_free = fetched] :
        o \in outcomes}

\* ... and the quantity the margin check started from, with the precision.
SawAtMargin(outcomes, price, fetched, quantity, lim) ==
    {[o EXCEPT !.seen.margin_price = price, !.seen.margin_free = fetched,
               !.seen.margin_quantity = quantity,
               !.seen.amount_precision = lim.amount_precision] :
        o \in outcomes}

Call(op, coin, side, amount, reduce_only, sl, tp) ==
    [op |-> op, coin |-> coin, side |-> side, amount |-> amount,
     reduce_only |-> reduce_only, sl |-> sl, tp |-> tp]

\* The entry and close orders among the calls (lines 753, 771, 804).
CreateOrders(cs) == SelectSeq(cs, LAMBDA c : c.op = "create_order")

\* decision.get(key, 0)
Get(d, key) == IF key \in DOMAIN d THEN d[key] ELSE 0

Prices == {100}

TickerRaises == FetchRaises

Tickers == Prices \cup {TickerRaises}

FreeBalances == {0, 4, 60, 1000, FetchRaises}

\* Outcomes of exchange.set_leverage and exchange.create_order.
LeverageReplies == {"ok", "bad_request", "error"}

OrderReplies == {"ok", "network", "exchange", "insufficient_funds", "other"}

\* lines 833-887: the except clauses in their order; InsufficientFunds is an
\* ExchangeError and is caught by the ExchangeError clause.
ErrorClass(reply) ==
    CASE reply = "network" -> "network"
      [] reply \in {"exchange", "insufficient_funds"} -> "exchange"
      [] OTHER -> "unknown"

(***************************************************************************)
(* exchange_data_tool.py execute_trade_order, lines 467-887, as the set of *)
(* its possible outcomes over the replies of the exchange.  The operators  *)
(* follow the function top-down; each takes the calls issued so far.       *)
(***************************************************************************)

\* lines 787-831: close the first position whose symbol contains the coin.
PositionSides == {"long", "short"}

\* The text of a position's symbol, by the base name of its USDT perpetual
\* market; the suffix "/USDT:USDT" is common to all and holds no coin name.
SymbolLetters(symbol) ==
    CASE symbol = "BTC" -> <<"B", "T", "C">>
      [] symbol = "ETH" -> <<"E", "T", "H">>
      [] symbol = "SOL" -> <<"S", "O", "L">>
      [] symbol = "DOGE" -> <<"D", "O", "G", "E">>
      [] symbol = "ETHFI" -> <<"E", "T", "H", "F", "I">>

\* line 792: Python's `coin in pos['symbol']', a substring test.
Contains(coin, symbol) ==
    LET sub == SymbolLetters(coin)
        text == SymbolLetters(symbol)
    IN  \E i \in 0..(Len(text) - Len(sub)) :
            SubSeq(text, i + 1, i + Len(sub)) = sub

\* lines 791-794: the positions the loop can stop at, in their order.
MatchingPositions(coin, positions) ==
    SelectSeq(positions, LAMBDA pos : Contains(coin, pos.symbol))

\* What get_positions returns: nothing, the coin's own position, or a
\* position in another market (SOL, and ETHFI on an account closing ETH),
\* alone or listed before the coin's own.
ClosePositions(coin) ==
    {<<>>}
        \cup {<<[symbol |-> coin, side |-> sd, size |-> 20000]>> :
                 sd \in PositionSides}
        \cup UNION {
               {<<[symbol |-> other, side |-> "long", size |-> 30000]>>,
                <<[symbol |-> other, side |-> "long", size |-> 30000],
                  [symbol |-> coin, side |-> "short", size |-> 20000]>>}
               : other \in IF coin = "ETH" THEN {"SOL", "ETHFI"}
                                  ELSE {"SOL"}}

SawPositions(outcomes, positions) ==
    {[o EXCEPT !.seen.positions_read = TRUE, !.seen.positions = positions] :
        o \in outcomes}

SawOrderReply(o, reply) == [o EXCEPT !.seen.order_reply = reply]

\* The close branch with an order on the side of the position.
ClosePositionSameSide(d, lim, cs) ==
    UNION {
        SawPositions(
            IF MatchingPositions(d["coin"], positions) = <<>>
            THEN {Outcome(TradeResult(FALSE, FALSE, "close", 0, "not_found",
                                      FALSE),
                          cs, lim.min_amount)}
            ELSE LET target == MatchingPositions(d["coin"], positions)[1]
                     order == Call("create_order", d["coin"],
                                   IF target.side = "long" THEN "buy"
                                   ELSE "sell",
                                   target.size, TRUE, 0, 0)
                 IN  {SawOrderReply(
                        IF reply = "ok"
                        THEN Outcome(TradeResult(TRUE, TRUE, target.side,
                                                 target.size, "none", FALSE),
                                     Append(cs, order), lim.min_amount)
                        ELSE Outcome(Failure(ErrorClass(reply)),
                                     Append(cs, order), lim.min_amount),
                        reply)
                      : reply \in OrderReplies},
            positions)
        : positions \in ClosePositions(d["coin"])}

ClosePosition(d, lim, cs) ==
    UNION {
        SawPositions(
            IF MatchingPositions(d["coin"], positions) = <<>>
            THEN {Outcome(TradeResult(FALSE, FALSE, "close", 0, "not_found",
                                      FALSE),
                          cs, lim.min_amount)}
            ELSE LET target == MatchingPositions(d["coin"], positions)[1]
                     order == Call("create_order", d["coin"],
                                   IF target.side = "long" THEN "sell"
                                   ELSE "buy",
                                   target.size, TRUE, 0, 0)
                 IN  {SawOrderReply(
                        IF reply = "ok"
                        THEN Outcome(TradeResult(TRUE, TRUE, target.side,
                                                 target.size, "none", FALSE),
                                     Append(cs, order), lim.min_amount)
                        ELSE Outcome(Failure(ErrorClass(reply)),
                                     Append(cs, order), lim.min_amount),
                        reply)
                      : reply \in OrderReplies},
            positions)
        : positions \in ClosePositions(d["coin"])}

\* An entry order that is submitted a second time when the exchange refuses it.
SubmitEntryRetried(d, lim, quantity, cs) ==
    LET order == Call("create_order", d["coin"],
                      IF d["signal"] = "buy_to_enter" THEN "buy" ELSE "sell",
                      quantity, FALSE, Get(d, "stop_loss_price"),
                      Get(d, "take_profit_price"))
    IN  {SawOrderReply(
            IF reply = "ok"
            THEN Outcome(TradeResult(TRUE, TRUE,
                                     IF d["signal"] = "buy_to_enter"
                                     THEN "long" ELSE "short",
                                     quantity, "none", FALSE),
                         Append(cs, order), lim.min_amount)
            ELSE Outcome(Failure(ErrorClass(reply)), cs \o <<order, order>>,
                         lim.min_amount),
            reply)
         : reply \in OrderReplies}

\* lines 751-785: submit the entry order with the preset triggers.
SubmitEntry(d, lim, quantity, cs) ==
    LET order == Call("create_order", d["coin"],
                      IF d["signal"] = "buy_to_enter" THEN "buy" ELSE "sell",
                      quantity, FALSE, Get(d, "stop_loss_price"),
                      Get(d, "take_profit_price"))
    IN  {SawOrderReply(
            IF reply = "ok"
            THEN Outcome(TradeResult(TRUE, TRUE,
                                     IF d["signal"] = "buy_to_enter"
                                     THEN "long" ELSE "short",
                                     quantity, "none", FALSE),
                         Append(cs, order), lim.min_amount)
            ELSE Outcome(Failure(ErrorClass(reply)), Append(cs, order),
                         lim.min_amount),
            reply)
         : reply \in OrderReplies}

\* lines 708-749: the final margin check of an entry.  A ticker that raises
\* leaves the quantity as it is; the balance read never raises.
\* line 723, available < quantity * price / leverage * 1.05, over the integers.
BelowBufferedMargin(available, lev, quantity, price) ==
    available * TicksPerCoin * lev <= (quantity * price * 21 - 1) \div 20

\* line 725, available * 0.95 * leverage / price in ticks, is
\* AffordableTimesPrice / price.
AffordableTimesPrice(available, lev) ==
    available * lev * (TicksPerCoin \div 20) * 19

MarginCheck(d, lim, quantity, cs) ==
    UNION {
        IF price = TickerRaises
        THEN SawAtMargin(SubmitEntry(d, lim, quantity, cs), price, Unread,
                         quantity, lim)
        ELSE UNION {
            LET available == get_account_balance(TRUE, fetched)
                lev == d["leverage"]
            IN  SawAtMargin(
                  IF BelowBufferedMargin(available, lev, quantity, price)
                  THEN IF AffordableTimesPrice(available, lev)
                              >= lim.min_amount * price
                       THEN SubmitEntry(d, lim,
                                RoundAmount(AffordableTimesPrice(available, lev),
                                            price, lim.amount_precision),
                                cs)
                       ELSE {Outcome(Failure("insufficient_margin"), cs,
                                     lim.min_amount)}
                  ELSE SubmitEntry(d, lim, quantity, cs),
                  price, fetched, quantity, lim)
            : fetched \in FreeBalances}
        : price \in Tickers}

\* lines 668-686: an entry without both trigger prices is refused.
TriggerCheck(d, lim, quantity, cs) ==
    IF d["signal"] \in EntrySignals
    THEN IF Get(d, "stop_loss_price") <= 0 \/ Get(d, "take_profit_price") <= 0
         THEN {Outcome(Failure("no_stop_loss_take_profit"), cs, lim.min_amount)}
         ELSE MarginCheck(d, lim, quantity, cs)
    ELSE ClosePosition(d, lim, cs)

SawLeverageReply(outcomes, reply) ==
    {[o EXCEPT !.seen.leverage_reply = reply] : o \in outcomes}

\* Position mode and leverage with every set_leverage error swallowed.
SetLeverageSwallowing(d, lim, quantity) ==
    LET mode == Call("set_position_mode", d["coin"], "none", 0, FALSE, 0, 0)
        lever == Call("set_leverage", d["coin"], "none", d["leverage"], FALSE,
                      0, 0)
    IN  IF d["leverage"] > 1
        THEN UNION {
                SawLeverageReply(TriggerCheck(d, lim, quantity, <<mode, lever>>),
                                 reply)
                : reply \in LeverageReplies}
        ELSE TriggerCheck(d, lim, quantity, <<mode>>)

\* lines 634-664: position mode and leverage are set before anything is checked.
SetLeverage(d, lim, quantity) ==
    LET mode == Call("set_position_mode", d["coin"], "none", 0, FALSE, 0, 0)
        lever == Call("set_leverage", d["coin"], "none", d["leverage"], FALSE,
                      0, 0)
    IN  IF d["leverage"] > 1
        THEN UNION {
                SawLeverageReply(
                    IF reply = "error"
                    THEN {Outcome(Failure("set_leverage"), <<mode, lever>>,
                                  lim.min_amount)}
                    ELSE TriggerCheck(d, lim, quantity, <<mode, lever>>),
                    reply)
                : reply \in LeverageReplies}
        ELSE TriggerCheck(d, lim, quantity, <<mode>>)

\* The rounded quantity sent on to the exchange whenever credentials are
\* configured, whatever dry_run says.
AfterQuantityIgnoringDryRun(d, dry_run, hasKey, lim, quantity) ==
    LET rounded == RoundAmount(quantity, 1, lim.amount_precision)
    IN  IF ~hasKey
        THEN {Outcome(TradeResult(TRUE, TRUE, d["signal"], rounded, "none",
                                  TRUE),
                      <<>>, lim.min_amount)}
        ELSE SetLeverage(d, lim, rounded)

\* lines 581-632: round the quantity; a dry run and a run without credentials
\* return a simulated success here.
AfterQuantity(d, dry_run, hasKey, lim, quantity) ==
    LET rounded == RoundAmount(quantity, 1, lim.amount_precision)
    IN  IF dry_run \/ ~hasKey
        THEN {Outcome(TradeResult(TRUE, TRUE, d["signal"], rounded, "none",
                                  TRUE),
                      <<>>, lim.min_amount)}
        ELSE SetLeverage(d, lim, rounded)

\* lines 537-579: an entry below the minimum is raised to the minimum when the
\* free balance covers minimum * price / leverage, and fails otherwise.
MinimumCheck(d, dry_run, hasKey, lim) ==
    IF d["quantity"] < lim.min_amount /\ d["signal"] \in EntrySignals
    THEN UNION {
            IF price = TickerRaises
            THEN SawAtMinimum(
                    {Outcome(Failure("below_minimum"), <<>>, lim.min_amount)},
                    price, Unread)
            ELSE UNION {
                SawAtMinimum(
                    IF get_account_balance(hasKey, fetched) * TicksPerCoin
                            * d["leverage"] >= lim.min_amount * price
                    THEN AfterQuantity(d, dry_run, hasKey, lim, lim.min_amount)
                    ELSE {Outcome(Failure("below_minimum"), <<>>,
                                  lim.min_amount)},
                    price, fetched)
                : fetched \in FreeBalances}
            : price \in Tickers}
    ELSE AfterQuantity(d, dry_run, hasKey, lim, d["quantity"])

\* execute_trade_order without the hold branch of lines 515-526.
execute_trade_order_without_hold(d, dry_run, hasKey) ==
    IF \E f \in {"signal", "coin", "quantity", "leverage"} : f \notin DOMAIN d
    THEN {Outcome(Failure("missing_field"), <<>>, 0)}
    ELSE UNION {MinimumCheck(d, dry_run, hasKey,
                             get_market_limits(d["coin"], mk))
                : mk \in MarketInfos}

execute_trade_order(d, dry_run, hasKey) ==
    IF \E f \in {"signal", "coin", "quantity", "leverage"} : f \notin DOMAIN d
    THEN {Outcome(Failure("missing_field"), <<>>, 0)}
    ELSE IF d["signal"] \notin Signals
    THEN {Outcome(Failure("invalid_signal"), <<>>, 0)}
    ELSE IF d["signal"] = "hold"
    THEN {Outcome(TradeResult(TRUE, FALSE, "hold", 0, "none", dry_run),
                  <<>>, 0)}
    ELSE UNION {MinimumCheck(d, dry_run, hasKey,
                             get_market_limits(d["coin"], mk))
                : mk \in MarketInfos}

(***************************************************************************)
(* exchange_data_tool.py set_stop_loss_take_profit, lines 889-1063, as the *)
(* set of its outcomes.  `position' is what get_positions reports for the  *)
(* symbol when the function looks up the size (NoPosition: none found, or  *)
(* the read failed).                                                       *)
(***************************************************************************)
NoPosition ==
    [symbol |-> "", side |-> "none", size |-> 0, stop_loss_price |-> 0,
     take_profit_price |-> 0]

\* The position the exchange shows after an entry: absent, or open with each
\* preset trigger attached or not.
PositionsAfterEntry(coin, side, quantity, sl, tp) ==
    {NoPosition}
        \cup {[symbol |-> coin, side |-> side, size |-> quantity,
               stop_loss_price |-> s, take_profit_price |-> t] :
                 s \in {0, sl}, t \in {0, tp}}

ProtectReplies == {"ok", "error"}

Protection(status, cs, position) ==
    [status |-> status, calls |-> cs, position |-> position]

set_stop_loss_take_profit(coin, stop_loss_price, take_profit, side, quantity, dry_run, hasKey) ==
    IF dry_run \/ ~hasKey
    THEN {Protection("simulated", <<>>, NoPosition)}
    ELSE UNION {
        IF position.size <= 0
        THEN {Protection("failed", <<>>, position)}
        ELSE LET close_side == IF side = "long" THEN "sell" ELSE "buy"
                 sl_order == Call("create_stop_loss_order", coin, close_side,
                                  position.size, TRUE, stop_loss_price, 0)
                 tp_order == Call("create_take_profit_order", coin, close_side,
                                  position.size, TRUE, 0, take_profit)
                 after_sl ==
                     IF stop_loss_price # 0
                     THEN {[failed |-> r = "error", calls |-> <<sl_order>>] :
                              r \in ProtectReplies}
                     ELSE {[failed |-> FALSE, calls |-> <<>>]}
             IN  UNION {
                    IF a.failed
                    THEN {Protection("failed", a.calls, position)}
                    ELSE IF take_profit # 0
                    THEN {Protection(IF r = "ok" THEN "ok" ELSE "failed",
                                     Append(a.calls, tp_order), position) :
                             r \in ProtectReplies}
                    ELSE {Protection("ok", a.calls, position)}
                    : a \in after_sl}
        : position \in PositionsAfterEntry(coin, side, quantity,
                                           stop_loss_price, take_profit)}

(***************************************************************************)
(* graph.py execute_trade, lines 356-488, as the set of its outcomes.      *)
(* Lines 370-382 read eight keys of the decision for the log before the    *)
(* try block: a missing key makes the node raise.                          *)
(***************************************************************************)
LoggedKeys ==
    {"signal", "coin", "quantity", "leverage", "profit_target", "stop_loss",
     "confidence", "justification"}

StageOutcome(raised, st, cs, trade, min_amount, protection, position) ==
    [raised |-> raised, state |-> st, calls |-> cs,
     result |-> [trade |-> trade, min_amount |-> min_amount,
                 protection |-> protection, position |-> position,
                 seen |-> NoReads, held |-> <<>>]]

\* The stage outcomes with the reads of the execute_trade_order call they
\* follow.
WithReads(outcomes, seen) ==
    {[so EXCEPT !.result.seen = seen] : so \in outcomes}

NoStageResult ==
    [trade |-> NoResult, min_amount |-> 0, protection |-> "not_called",
     position |-> NoPosition, seen |-> NoReads, held |-> <<>>]

\* lines 394-396: the result's side is written into the decision dict.
WithSide(d, side) ==
    [k \in DOMAIN d \cup {"side"} |-> IF k = "side" THEN side ELSE d[k]]

\* lines 468-477: the ledger entry; results of execute_trade_order carry no pnl.
LedgerEntry(st, d) ==
    [timestamp |-> st.minutes_elapsed, signal |-> d["signal"],
     coin |-> d["coin"], has_pnl |-> FALSE, pnl |-> 0,
     account_value |-> st.account_value]

\* lines 393-477: after a successful order.
AfterSuccess(st, hasKey, o) ==
    LET d == WithSide(st.decision, o.res.side)
        recorded ==
            [st EXCEPT !.decision = d,
                       !.trade_history = Append(@, LedgerEntry(st, d))]
    IN  IF d["signal"] \in EntrySignals
        THEN {StageOutcome(FALSE, recorded, o.calls \o p.calls, o.res,
                           o.min_amount, p.status, p.position) :
                p \in set_stop_loss_take_profit(
                         d["coin"], d["stop_loss"], d["profit_target"],
                         IF d["signal"] = "buy_to_enter" THEN "long"
                         ELSE "short",
                         o.res.quantity, st.dry_run, hasKey)}
        ELSE {StageOutcome(FALSE, recorded, o.calls, o.res, o.min_amount,
                           "not_called", NoPosition)}

execute_trade(st, hasKey) ==
    LET d == st.decision
    IN  IF \E k \in LoggedKeys : k \notin DOMAIN d
        THEN {StageOutcome(TRUE, st, <<>>, NoResult, 0, "not_called",
                           NoPosition)}
        ELSE IF d["signal"] = "hold"
        THEN {StageOutcome(FALSE, st, <<>>, NoResult, 0, "not_called",
                           NoPosition)}
        ELSE UNION {
                WithReads(
                    IF o.res.success
                    THEN AfterSuccess(st, hasKey, o)
                    ELSE {StageOutcome(FALSE, st, o.calls, o.res, o.min_amount,
                                       "not_called", NoPosition)},
                    o.seen)
                : o \in execute_trade_order(d, st.dry_run, hasKey)}

(***************************************************************************)
(* exchange_data_tool.py _resolve_order_fill, lines 415-465.  A missing    *)
(* value, None and 0 all read as false in the code's `or' chains and are   *)
(* the 0 of the model.  `log' lists the exchange calls in their order.     *)
(***************************************************************************)
max_attempts == 3

\* exit_price is the price line 457 tests.
FillLocals(stage, order, price, filled, attempt, log) ==
    [stage |-> stage, order |-> order, price |-> price, filled |-> filled,
     attempt |-> attempt, log |-> log, exit_price |-> price]

NoOrder == [id |-> FALSE, average |-> 0, price |-> 0, filled |-> 0, amount |-> 0]

NoFill == FillLocals("idle", NoOrder, 0, 0, 0, <<>>)

\* a or b
Or(a, b) == IF a # 0 THEN a ELSE b

\* The order create_order returned.
Orders ==
    [id : BOOLEAN, average : {0, 100}, price : {0, 101}, filled : {0, 5},
     amount : {0, 6}]

\* lines 420-424: the locals before the loop.
StartFill(order) ==
    FillLocals("loop", order, Or(order.average, order.price),
               Or(order.filled, order.amount), 0, <<>>)

\* What fetch_order returns, or that it raised.
FetchedOrders ==
    [ok : {TRUE}, average : {0, 102}, price : {0, 103}, filled : {0, 7}]
        \cup {[ok |-> FALSE, average |-> 0, price |-> 0, filled |-> 0]}

\* What fetch_my_trades yields for the order: it raised or no trade of the
\* order has a quantity (ok = FALSE), or the weighted price and total.
TradeFills ==
    {[ok |-> FALSE, vwap |-> 0, total_qty |-> 0]}
        \cup [ok : {TRUE}, vwap : {0, 104}, total_qty : {8}]

\* lines 427-434: the re-fetch of the order, when it has an id.
AfterFetchOrder(f, fetched) ==
    IF ~f.order.id THEN f
    ELSE IF ~fetched.ok THEN [f EXCEPT !.log = Append(@, "fetch_order")]
    ELSE [f EXCEPT !.price = Or(fetched.average, Or(fetched.price, @)),
                   !.filled = Or(fetched.filled, @),
                   !.log = Append(@, "fetch_order")]

\* lines 436-449: the aggregation of the order's trades.
AfterFetchTrades(f, trades) ==
    IF f.price # 0 /\ f.filled # 0 THEN f
    ELSE IF ~trades.ok THEN [f EXCEPT !.log = Append(@, "fetch_my_trades")]
    ELSE [f EXCEPT !.price = Or(@, trades.vwap),
                   !.filled = Or(@, trades.total_qty),
                   !.log = Append(@, "fetch_my_trades")]

\* A pass of the loop without the count of line 454.
LoopPassWithoutCount(f, fetched, trades) ==
    AfterFetchTrades(AfterFetchOrder(f, fetched), trades)

\* lines 426-455: one pass of the while loop.
LoopPass(f, fetched, trades) ==
    LET g == AfterFetchTrades(AfterFetchOrder(f, fetched), trades)
    IN  IF g.price # 0 /\ g.filled # 0 THEN g
        ELSE [g EXCEPT !.attempt = @ + 1]

\* line 426
LoopGoesOn(f) == f.attempt < max_attempts /\ (f.price = 0 \/ f.filled = 0)

\* What fetch_ticker's last is, or that it raised (FetchRaises).
TickerLasts == {0, 105, FetchRaises}

\* lines 457-465: the ticker as the last resort, and the return.
ReturnFill(f, last) ==
    IF f.price = 0
    THEN [f EXCEPT !.stage = "returned", !.exit_price = f.price,
                   !.price = IF last = FetchRaises THEN 0 ELSE last,
                   !.log = Append(@, "fetch_ticker")]
    ELSE [f EXCEPT !.stage = "returned", !.exit_price = f.price]

(***************************************************************************)
(* exchange_data_tool.py get_market_data, lines 165-224.  `pending' are    *)
(* the submitted workers that have not completed, `completed' the coins in *)
(* the order as_completed yielded them and `failed' the coins whose        *)
(* _fetch_coin_data caught an exception.  `structured' is the returned     *)
(* dict as the sequence of its values in key order; coin_results, sorted,  *)
(* is the order of the blocks of the returned string.                      *)
(***************************************************************************)
MaxCoins == 3

FetchCoins == {"BTC", "ETH", "SOL", "DOGE"}

\* The coin lists a caller passes: no coin twice.
CoinLists ==
    {cs \in UNION {[1..n -> FetchCoins] : n \in 0..MaxCoins} :
        \A i, j \in 1..Len(cs) : cs[i] = cs[j] => i = j}

NoFetch ==
    [stage |-> "idle", coins |-> <<>>, pending |-> {}, coin_results |-> <<>>,
     structured |-> <<>>, completed |-> <<>>, failed |-> {}]

\* lines 176-190: every coin is submitted to the pool once.
StartFetch(coins) ==
    [NoFetch EXCEPT !.stage = "fetching", !.coins = coins,
                    !.pending = {coins[i] : i \in 1..Len(coins)}]

\* _fetch_coin_data, lines 75-162: the result dict of one worker.
CoinResult(coin, success) == [coin |-> coin, success |-> success]

\* coins.index(coin)
Index(coins, coin) ==
    CHOOSE i \in 1..Len(coins) :
        coins[i] = coin /\ \A j \in 1..(i - 1) : coins[j] # coin

\* The results left in the order of completion.
unsorted(coin_results, coins) == coin_results

RECURSIVE SortedFrom(_, _, _)
\* The results whose key is k or more, by key, those of one key in the order
\* they have in coin_results.
SortedFrom(coin_results, coins, k) ==
    IF k > Len(coins) THEN <<>>
    ELSE SelectSeq(coin_results, LAMBDA r : Index(coins, r.coin) = k)
            \o SortedFrom(coin_results, coins, k + 1)

\* line 198: coin_results.sort(key=lambda x: coins.index(x['coin'])); the sort
\* is stable.
sort(coin_results, coins) == SortedFrom(coin_results, coins, 1)

\* lines 201-202: structured_results[result['coin']] = result over the sorted
\* results.  A dict keeps a key where it was first inserted and the value
\* last assigned to it.
DictOf(coin_results) ==
    LET n == Len(coin_results)
        Firsts == {i \in 1..n :
                     \A j \in 1..(i - 1) :
                        coin_results[j].coin # coin_results[i].coin}
        KeyAt(k) ==
            CHOOSE i \in Firsts : Cardinality({j \in Firsts : j <= i}) = k
        LastOf(coin) ==
            CHOOSE i \in 1..n :
                /\ coin_results[i].coin = coin
                /\ \A j \in (i + 1)..n : coin_results[j].coin # coin
    IN  [k \in 1..Cardinality(Firsts) |->
            coin_results[LastOf(coin_results[KeyAt(k)].coin)]]

(***************************************************************************)
(* utils/trend_validation.py validate_trend_consistency, lines 90-203.     *)
(* The function is defined and tested on its own; no node of the workflow  *)
(* under graph.py calls it.                                                *)
(***************************************************************************)
CONFIDENCE_THRESHOLD == 70

STREAK_LENGTH == 3

Verdict(valid, warnings, trend) ==
    [valid |-> valid, warnings |-> warnings, trend |-> trend]

NoVerdict == Verdict(TRUE, {}, "not_called")

\* A trend read from the EMA cross alone.
Trend4hEmaOnly(ind) ==
    IF ind.ema20 > ind.ema50 THEN "up"
    ELSE IF ind.ema20 < ind.ema50 THEN "down"
    ELSE "neutral"

\* lines 136-138
Trend4h(ind) ==
    IF ind.ema20 > ind.ema50 /\ ind.macd > 0 THEN "up"
    ELSE IF ind.ema20 < ind.ema50 /\ ind.macd < 0 THEN "down"
    ELSE "neutral"

\* extract_market_indicators (lines 5-87) and the required keys of lines
\* 122-128: the 4h indicators of the coin, when its block holds them.
IndicatorsOf(market_data, coin) ==
    IF coin \in DOMAIN market_data THEN market_data[coin] ELSE IndMissing

\* lines 187-201: the last three ledger entries; those without a pnl are
\* skipped by the generator's filter, and all() of what is left decides.
LastEntries(trade_history) ==
    {trade_history[i] :
        i \in (Len(trade_history) - STREAK_LENGTH + 1)..Len(trade_history)}

AllLossesResolvedOnly(trade_history) ==
    LET resolved == SelectSeq(trade_history, LAMBDA t : t.has_pnl)
    IN  /\ Len(resolved) >= STREAK_LENGTH
        /\ \A t \in LastEntries(resolved) : t.pnl < 0

AllLosses(trade_history) ==
    /\ Len(trade_history) >= STREAK_LENGTH
    /\ \A t \in LastEntries(trade_history) : t.has_pnl => t.pnl < 0

validate_trend_consistency(decision, market_data, trade_history) ==
    LET coin == IF "coin" \in DOMAIN decision THEN decision["coin"] ELSE ""
        ind == IndicatorsOf(market_data, coin)
        trend == Trend4h(ind)
        confidence == Get(decision, "confidence")
        counter ==
            \/ trend = "down" /\ decision["signal"] = "buy_to_enter"
            \/ trend = "up" /\ decision["signal"] = "sell_to_enter"
        streak == AllLosses(trade_history)
    IN  IF decision["signal"] \notin EntrySignals \/ coin = ""
        THEN Verdict(TRUE, {}, "unset")
        ELSE IF ~ind.avail
        THEN Verdict(TRUE, {"trend_validation_skipped"}, "unset")
        ELSE Verdict(
                ~(counter /\ confidence < CONFIDENCE_THRESHOLD) /\ ~streak,
                (IF counter /\ confidence < CONFIDENCE_THRESHOLD
                 THEN {"counter_trend_rejected"} ELSE {})
                  \cup (IF counter /\ confidence >= CONFIDENCE_THRESHOLD
                        THEN {"counter_trend_override"} ELSE {})
                  \cup (IF trend = "down" /\ ind.rsi < 30
                              /\ decision["signal"] = "buy_to_enter"
                        THEN {"rsi_oversold"} ELSE {})
                  \cup (IF streak THEN {"loss_streak"} ELSE {}),
                trend)

(***************************************************************************)
(* config.py, lines 12-55: what the module makes of the environment when   *)
(* it is imported.  An environment variable is unset or a comma-separated  *)
(* text, here the sequence of its parts.                                   *)
(***************************************************************************)
MaxEnvCoins == 2

ALL_SUPPORTED_COINS == {"BTC", "ETH", "SOL", "BGB", "DOGE", "SUI", "LTC"}

EnvTokens == {"BTC", "btc", " DOGE", "XRP", ""}

EnvValues ==
    {[set |-> FALSE, tokens |-> <<>>]}
        \cup {[set |-> TRUE, tokens |-> t] :
                t \in UNION {[1..n -> EnvTokens] : n \in 0..MaxEnvCoins}}

\* coin.strip().upper()
StripUpper(token) ==
    CASE token = "btc" -> "BTC"
      [] token = " DOGE" -> "DOGE"
      [] OTHER -> token

\* lines 20-21 and 30-31: os.getenv(name, default).split(','), each part
\* stripped and upper-cased, the empty parts dropped.
ParseCoins(env, default) ==
    LET tokens == IF env.set THEN env.tokens ELSE default
    IN  SelectSeq([i \in 1..Len(tokens) |-> StripUpper(tokens[i])],
                  LAMBDA coin : coin # "")

\* The module after its import: LOW_EQUITY_COINS is parsed at lines 20-21,
\* get_trading_coins (lines 23-41, called at line 55) raises ValueError for a
\* coin of TRADING_COINS outside ALL_SUPPORTED_COINS.
Imported(trading_env, low_env) ==
    LET low == ParseCoins(low_env, <<"DOGE">>)
        coins == ParseCoins(trading_env, <<"BTC", "ETH", "SOL">>)
    IN  IF \E i \in 1..Len(coins) : coins[i] \notin ALL_SUPPORTED_COINS
        THEN [stage |-> "aborted", trading_env |-> trading_env,
              low_env |-> low_env, TRADING_COINS |-> <<>>,
              LOW_EQUITY_COINS |-> low]
        ELSE [stage |-> "loaded", trading_env |-> trading_env,
              low_env |-> low_env, TRADING_COINS |-> coins,
              LOW_EQUITY_COINS |-> low]

NoConfig ==
    [stage |-> "idle", trading_env |-> [set |-> FALSE, tokens |-> <<>>],
     low_env |-> [set |-> FALSE, tokens |-> <<>>], TRADING_COINS |-> <<>>,
     LOW_EQUITY_COINS |-> <<>>]

(***************************************************************************)
(* main.py main (lines 18-127) and workflow.py run_trading_cycle (lines    *)
(* 63-85).  `saved' is the state main holds and hands to run_trading_cycle.*)
(* The other fields record what the loop did: the nodes run in the cycle,  *)
(* the equity fetched in it and the tier it gave, the tier of the cycle    *)
(* before, the tier events update_market_data logged (lines 43 and 58),    *)
(* the coins left without a successful snapshot, the entry and close       *)
(* orders submitted so far, the cycles that returned, and how main ended.  *)
(***************************************************************************)
NoMain ==
    [args_cycles |-> 0, has_locals |-> FALSE,
     saved |-> initialize_agent_state(FALSE), stages |-> <<>>, equity |-> 0,
     low |-> FALSE, prev_low |-> FALSE, tier_events |-> 0, no_snapshot |-> {},
     orders |-> 0, returned |-> 0, exit |-> "none", interrupted_at |-> "none",
     summary |-> FALSE, balance_read |-> TRUE]

\* workflow.py lines 44-49: the edges of the graph; after calculate_performance
\* comes END, and run_trading_cycle goes on to save the result.
NextNodeWithoutAnalysis(node) ==
    CASE node = "gather" -> "decide"
      [] node = "analysis" -> "decide"
      [] node = "decide" -> "execute"
      [] node = "execute" -> "score"
      [] OTHER -> "save"

NextNode(node) ==
    CASE node = "gather" -> "analysis"
      [] node = "analysis" -> "decide"
      [] node = "decide" -> "execute"
      [] node = "execute" -> "score"
      [] OTHER -> "save"

Nodes == {"gather", "analysis", "decide", "execute", "score"}

\* utils/market.py lines 42-50 and 57-65: the tier events the node logs.
TierEvents(st, account_equity) ==
    IF account_equity < MIN_EQUITY_FOR_MULTI_ASSET
    THEN IF ~st.low_equity_mode_logged THEN 1 ELSE 0
    ELSE IF st.low_equity_mode THEN 1 ELSE 0

\* The coins get_market_data gave no successful snapshot for; all of them when
\* it raised (md = EmptyDict).
WithoutSnapshot(md) ==
    IF md = EmptyDict THEN SeqToSet(TRADING_COINS)
    ELSE {coin \in DOMAIN md : ~md[coin].avail}

\* A return of the argument that shares nothing with the graph's state.
ReturnedInputCopy(saved, st) == saved

\* workflow.py line 85: on an exception run_trading_cycle returns the state it
\* was given.  The nodes worked on the graph's own dict, so what they
\* assigned to its keys is lost; the trade_history list and the account_info
\* dict are shared with it and keep what the nodes wrote into them.
ReturnedOnException(saved, st) ==
    [saved EXCEPT !.trade_history = st.trade_history,
                  !.account_value = st.account_value]

(***************************************************************************)
(* The cycle of workflow.py create_trading_workflow (lines 31-60), run by  *)
(* main.py once per iteration.                                             *)
(***************************************************************************)
Init ==
    /\ pc = "gather"
    /\ state \in {initialize_agent_state(dry_run) : dry_run \in BOOLEAN}
    /\ apiKey \in BOOLEAN
    /\ oracle = NoOracle
    /\ calls = <<>>
    /\ result = NoStageResult
    /\ cycle = 0
    /\ verdict = NoVerdict
    /\ fill = NoFill
    /\ fetch = NoFetch
    /\ main = NoMain
    /\ config = NoConfig

UpdateMarketData ==
    /\ pc = "gather"
    /\ cycle < MaxCycles
    /\ \E fetched \in BalanceFetches, md \in MarketSnapshots \cup {EmptyDict} :
          state' = update_market_data(state, apiKey, fetched, md)
    /\ pc' = "analysis"
    /\ cycle' = cycle + 1
    /\ oracle' = NoOracle
    /\ calls' = <<>>
    /\ result' = NoStageResult
    /\ UNCHANGED <<apiKey, verdict, fill, fetch, main, config>>

\* workflow.py update_historical_analysis, lines 21-28: generate_llm_data
\* catches its own failures, and nothing below reads historical_analysis.
UpdateHistoricalAnalysis ==
    /\ pc = "analysis"
    /\ pc' = "decide"
    /\ UNCHANGED <<state, apiKey, oracle, calls, result, cycle, verdict, fill, fetch, main, config>>

GetDecision ==
    /\ pc = "decide"
    /\ \E out \in OracleOutputs :
          /\ oracle' = out
          /\ state' = [state EXCEPT !.decision = get_decision(state, out)]
    /\ pc' = "execute"
    /\ UNCHANGED <<apiKey, calls, result, cycle, verdict, fill, fetch, main, config>>

ExecuteTrade ==
    /\ pc = "execute"
    /\ \E o \in execute_trade(state, apiKey) :
          /\ state' = o.state
          /\ calls' = o.calls
          /\ result' = o.result
          /\ pc' = IF o.raised THEN "failed" ELSE "score"
    /\ UNCHANGED <<apiKey, oracle, cycle, verdict, fill, fetch, main, config>>

\* utils/performance.py calculate_performance_metrics: only return_pct and
\* sharpe_ratio of account_info change, which the model does not carry.
CalculatePerformance ==
    /\ pc = "score"
    /\ pc' = "gather"
    /\ UNCHANGED <<state, apiKey, oracle, calls, result, cycle, verdict, fill, fetch, main, config>>

Next ==
    \/ UpdateMarketData
    \/ UpdateHistoricalAnalysis
    \/ GetDecision
    \/ ExecuteTrade
    \/ CalculatePerformance

Spec == Init /\ [][Next]_vars

(***************************************************************************)
(* The execute stage on its own: execute_trade applied to a state whose    *)
(* decision is any dict of the shapes the code writes and reads.  The      *)
(* fallback of get_decision carries profit_target and stop_loss, the       *)
(* dict() of a TradingDecision carries take_profit_price and               *)
(* stop_loss_price, and execute_trade with execute_trade_order read both   *)
(* spellings.                                                              *)
(***************************************************************************)
KeyStyles == {"fallback", "schema", "both"}

DecisionKeys(style) ==
    {"signal", "coin", "quantity", "leverage", "confidence", "justification"}
        \cup (IF style \in {"fallback", "both"}
              THEN {"profit_target", "stop_loss"} ELSE {})
        \cup (IF style \in {"schema", "both"}
              THEN {"take_profit_price", "stop_loss_price"} ELSE {})

DecisionDict(style, signal, coin, quantity, leverage, sl, tp) ==
    [k \in DecisionKeys(style) |->
        CASE k = "signal" -> signal
          [] k = "coin" -> coin
          [] k = "quantity" -> quantity
          [] k = "leverage" -> leverage
          [] k = "confidence" -> 80
          [] k = "justification" -> <<"oracle">>
          [] k \in {"profit_target", "take_profit_price"} -> tp
          [] OTHER -> sl]

EngineCoins == {"BTC", "DOGE"}

EngineQuantities == {4, 14, 50000, 500000}

EngineDecisions ==
    {DecisionDict(style, signal, coin, quantity, leverage, sl, tp) :
        style \in KeyStyles, signal \in Signals, coin \in EngineCoins,
        quantity \in EngineQuantities, leverage \in {1, 5}, sl \in {0, 90},
        tp \in {0, 110}}
        \cup {DecisionDict(style, "close", "ETH", 14, 1, 0, 0) :
                 style \in KeyStyles}

InitEngine ==
    /\ pc = "execute"
    /\ state \in {[initialize_agent_state(dry_run) EXCEPT
                      !.decision = d, !.minutes_elapsed = 3,
                      !.active_trading_coins = TRADING_COINS,
                      !.account_value = DefaultBalance] :
                    dry_run \in BOOLEAN, d \in EngineDecisions}
    /\ apiKey \in BOOLEAN
    /\ oracle = NoOracle
    /\ calls = <<>>
    /\ result = NoStageResult
    /\ cycle = 1
    /\ verdict = NoVerdict
    /\ fill = NoFill
    /\ fetch = NoFetch
    /\ main = NoMain
    /\ config = NoConfig

NextEngine == ExecuteTrade \/ CalculatePerformance

SpecEngine == InitEngine /\ [][NextEngine]_vars

(***************************************************************************)
(* execute_trade_order called directly, next to the execute stage, on a    *)
(* state whose ledger is empty or already holds an entry.                  *)
(***************************************************************************)
EarlierEntry ==
    [timestamp |-> 0, signal |-> "buy_to_enter", coin |-> "BTC",
     has_pnl |-> FALSE, pnl |-> 0, account_value |-> DefaultBalance]

InitOrder ==
    /\ pc \in {"order", "execute"}
    /\ state \in {[initialize_agent_state(dry_run) EXCEPT
                      !.decision = d, !.minutes_elapsed = 3,
                      !.active_trading_coins = TRADING_COINS,
                      !.account_value = DefaultBalance,
                      !.trade_history = h] :
                    dry_run \in BOOLEAN, d \in EngineDecisions,
                    h \in {<<>>, <<EarlierEntry>>}}
    /\ apiKey \in BOOLEAN
    /\ oracle = NoOracle
    /\ calls = <<>>
    /\ result = NoStageResult
    /\ cycle = 1
    /\ verdict = NoVerdict
    /\ fill = NoFill
    /\ fetch = NoFetch
    /\ main = NoMain
    /\ config = NoConfig

\* `held' is what the exchange holds for the coin while the function runs:
\* a result that read the positions read these.
ExecuteTradeOrder ==
    /\ pc = "order"
    /\ \E held \in ClosePositions(state.decision["coin"]) :
       \E o \in execute_trade_order(state.decision, state.dry_run, apiKey) :
          /\ o.seen.positions_read => o.seen.positions = held
          /\ calls' = o.calls
          /\ result' = [NoStageResult EXCEPT !.trade = o.res,
                                             !.min_amount = o.min_amount,
                                             !.seen = o.seen,
                                             !.held = held]
    /\ pc' = "ordered"
    /\ UNCHANGED <<state, apiKey, oracle, cycle, verdict, fill, fetch, main, config>>

NextOrder == ExecuteTradeOrder \/ ExecuteTrade \/ CalculatePerformance

SpecOrder == InitOrder /\ [][NextOrder]_vars

(***************************************************************************)
(* validate_trend_consistency on its own, applied to any decision, market  *)
(* data and ledger.  A ledger entry carries a pnl only when its result     *)
(* dict has one.                                                           *)
(***************************************************************************)
MaxLedger == 4

PnlValues == {0 - 1, 1}

LedgerEntries ==
    {[timestamp |-> 3, signal |-> "buy_to_enter", coin |-> "BTC",
      has_pnl |-> FALSE, pnl |-> 0, account_value |-> 30]}
        \cup {[timestamp |-> 3, signal |-> "buy_to_enter", coin |-> "BTC",
               has_pnl |-> TRUE, pnl |-> v, account_value |-> 30] :
                 v \in PnlValues}

Ledgers == UNION {[1..n -> LedgerEntries] : n \in 0..MaxLedger}

GateDecisions ==
    {[DecisionDict("schema", signal, coin, 5, 5, 90, 110)
        EXCEPT !["confidence"] = c] :
        signal \in Signals, coin \in {"BTC", "DOGE"}, c \in {50, 70, 80}}

\* Indicators where the EMA cross and the MACD sign disagree the other way
\* round, and where neither says anything.
IndMixedDown ==
    [avail |-> TRUE, ema20 |-> 1, ema50 |-> 2, macd |-> 1, rsi |-> 50]

IndFlat == [avail |-> TRUE, ema20 |-> 1, ema50 |-> 1, macd |-> 0, rsi |-> 50]

GateSnapshots ==
    MarketSnapshots
        \cup {[coin \in SeqToSet(TRADING_COINS) |->
                  IF coin = "BTC" THEN ind ELSE IndUp] :
                ind \in {IndMixedDown, IndFlat}}

InitGate ==
    /\ pc = "validate"
    /\ state \in {[initialize_agent_state(FALSE) EXCEPT
                      !.decision = d, !.market_data = md,
                      !.trade_history = h, !.minutes_elapsed = 3,
                      !.active_trading_coins = TRADING_COINS] :
                    d \in GateDecisions, md \in GateSnapshots,
                    h \in Ledgers}
    /\ apiKey = TRUE
    /\ oracle = NoOracle
    /\ calls = <<>>
    /\ result = NoStageResult
    /\ cycle = 1
    /\ verdict = NoVerdict
    /\ fill = NoFill
    /\ fetch = NoFetch
    /\ main = NoMain
    /\ config = NoConfig

Validate ==
    /\ pc = "validate"
    /\ verdict' = validate_trend_consistency(state.decision, state.market_data,
                                             state.trade_history)
    /\ pc' = "validated"
    /\ UNCHANGED <<state, apiKey, oracle, calls, result, cycle, fill, fetch, main, config>>

NextGate == Validate

SpecGate == InitGate /\ [][NextGate]_vars

(***************************************************************************)
(* SpecFill: _resolve_order_fill on every order, with every reply of the   *)
(* exchange to fetch_order, fetch_my_trades and fetch_ticker.              *)
(***************************************************************************)
InitFill ==
    /\ pc = "fill"
    /\ state = initialize_agent_state(FALSE)
    /\ apiKey = TRUE
    /\ oracle = NoOracle
    /\ calls = <<>>
    /\ result = NoStageResult
    /\ cycle = 1
    /\ verdict = NoVerdict
    /\ fill \in {StartFill(order) : order \in Orders}
    /\ fetch = NoFetch
    /\ main = NoMain
    /\ config = NoConfig

FillAttempt ==
    /\ pc = "fill"
    /\ fill.stage = "loop"
    /\ LoopGoesOn(fill)
    /\ \E fetched \in FetchedOrders, trades \in TradeFills :
           fill' = LoopPass(fill, fetched, trades)
    /\ UNCHANGED <<pc, state, apiKey, oracle, calls, result, cycle, verdict,
                   fetch, main, config>>

FillReturn ==
    /\ pc = "fill"
    /\ fill.stage = "loop"
    /\ ~LoopGoesOn(fill)
    /\ \E last \in TickerLasts : fill' = ReturnFill(fill, last)
    /\ UNCHANGED <<pc, state, apiKey, oracle, calls, result, cycle, verdict,
                   fetch, main, config>>

NextFill == FillAttempt \/ FillReturn

SpecFill == InitFill /\ [][NextFill]_vars /\ WF_vars(NextFill)

(***************************************************************************)
(* SpecFetch: get_market_data on every coin list, the workers completing   *)
(* in any order, each with a result or a caught exception.                 *)
(***************************************************************************)
InitFetch ==
    /\ pc = "fetch"
    /\ state = initialize_agent_state(FALSE)
    /\ apiKey = TRUE
    /\ oracle = NoOracle
    /\ calls = <<>>
    /\ result = NoStageResult
    /\ cycle = 1
    /\ verdict = NoVerdict
    /\ fill = NoFill
    /\ fetch \in {StartFetch(coins) : coins \in CoinLists}
    /\ main = NoMain
    /\ config = NoConfig

\* lines 193-195: as_completed yields one more future, its result is appended.
WorkerCompletes ==
    /\ pc = "fetch"
    /\ fetch.stage = "fetching"
    /\ \E coin \in fetch.pending, success \in BOOLEAN :
          fetch' = [fetch EXCEPT
                      !.pending = @ \ {coin},
                      !.coin_results = Append(@, CoinResult(coin, success)),
                      !.completed = Append(@, coin),
                      !.failed = IF success THEN @ ELSE @ \cup {coin}]
    /\ UNCHANGED <<pc, state, apiKey, oracle, calls, result, cycle, verdict,
                   fill, main, config>>

\* lines 197-224: the results are sorted, the dict and the string are built.
CollectResults ==
    /\ pc = "fetch"
    /\ fetch.stage = "fetching"
    /\ fetch.pending = {}
    /\ \E sorted \in {sort(fetch.coin_results, fetch.coins)} :
          fetch' = [fetch EXCEPT !.stage = "returned",
                                 !.coin_results = sorted,
                                 !.structured = DictOf(sorted)]
    /\ UNCHANGED <<pc, state, apiKey, oracle, calls, result, cycle, verdict,
                   fill, main, config>>

NextFetch == WorkerCompletes \/ CollectResults

SpecFetch == InitFetch /\ [][NextFetch]_vars /\ WF_vars(NextFetch)

(***************************************************************************)
(* SpecMain: main.py main around run_trading_cycle, cycle after cycle,     *)
(* with a KeyboardInterrupt arriving at any moment.  --cycles is 0 (run    *)
(* without end) or MaxCycles.  The nodes are those of Spec on smaller      *)
(* input sets.                                                             *)
(***************************************************************************)
MainOracleOutputs ==
    {out \in OracleValues :
        /\ out.coin \in {"BTC", "DOGE"}
        /\ out.quantity = 5 /\ out.leverage = 1
        /\ out.tp = 110 /\ out.sl = 90 /\ out.confidence = 80}
        \cup {OracleRaises}

MainSnapshots ==
    {md \in MarketSnapshots :
        md["ETH"] = IndUp /\ md["BTC"] \in {IndUp, IndMissing}}
        \cup {EmptyDict}

InitMain ==
    /\ pc = "startup"
    /\ state \in {initialize_agent_state(dry_run) : dry_run \in BOOLEAN}
    /\ apiKey = TRUE
    /\ oracle = NoOracle
    /\ calls = <<>>
    /\ result = NoStageResult
    /\ cycle = 0
    /\ verdict = NoVerdict
    /\ fill = NoFill
    /\ fetch = NoFetch
    /\ main \in {[NoMain EXCEPT !.args_cycles = n] : n \in {0, MaxCycles}}
    /\ config = NoConfig

\* main.py lines 39-54 and 83: the database, the workflow and the state are
\* set up; from here on `state' and `cycle' are locals of main.
Startup ==
    /\ pc = "startup"
    /\ pc' = "start"
    /\ main' = [main EXCEPT !.has_locals = TRUE, !.saved = state]
    /\ UNCHANGED <<state, apiKey, oracle, calls, result, cycle, verdict, fill,
                   fetch, config>>

\* main.py lines 60 and 87, workflow.py lines 65-69: run_trading_cycle is
\* called with main's state and invokes the graph on it.
StartCycle ==
    /\ pc = "start"
    /\ cycle < MaxCycles
    /\ main.args_cycles # 0 => cycle < main.args_cycles
    /\ pc' = "gather"
    /\ cycle' = cycle + 1
    /\ main' = [main EXCEPT !.saved = state, !.stages = <<>>,
                            !.prev_low = main.low, !.tier_events = 0,
                            !.no_snapshot = {}]
    /\ oracle' = NoOracle
    /\ calls' = <<>>
    /\ result' = NoStageResult
    /\ UNCHANGED <<state, apiKey, verdict, fill, fetch, config>>

\* The gather node on a fetched balance and market data drawn from the given
\* sets.
GatherOn(fetches, snapshots) ==
    /\ pc = "gather"
    /\ \E fetched \in fetches, md \in snapshots :
          /\ state' = update_market_data(state, apiKey, fetched, md)
          /\ main' = [main EXCEPT
                        !.stages = Append(@, "gather"),
                        !.equity = get_account_balance(apiKey, fetched),
                        !.balance_read = apiKey /\ fetched # FetchRaises,
                        !.low = get_account_balance(apiKey, fetched)
                                    < MIN_EQUITY_FOR_MULTI_ASSET,
                        !.tier_events =
                            TierEvents(state,
                                       get_account_balance(apiKey, fetched)),
                        !.no_snapshot = WithoutSnapshot(md)]
    /\ pc' = NextNode(pc)
    /\ UNCHANGED <<apiKey, oracle, calls, result, cycle, verdict, fill, fetch,
                   config>>

NodeUpdateMarketData == GatherOn(BalanceFetches, MainSnapshots)

NodeUpdateHistoricalAnalysis ==
    /\ pc = "analysis"
    /\ main' = [main EXCEPT !.stages = Append(@, "analysis")]
    /\ pc' = NextNode(pc)
    /\ UNCHANGED <<state, apiKey, oracle, calls, result, cycle, verdict, fill,
                   fetch, config>>

NodeGetDecision ==
    /\ pc = "decide"
    /\ \E out \in MainOracleOutputs :
          /\ oracle' = out
          /\ state' = [state EXCEPT !.decision = get_decision(state, out)]
    /\ main' = [main EXCEPT !.stages = Append(@, "decide")]
    /\ pc' = NextNode(pc)
    /\ UNCHANGED <<apiKey, calls, result, cycle, verdict, fill, fetch, config>>

\* When the node raises, app.invoke raises and run_trading_cycle returns at
\* line 85.
NodeExecuteTrade ==
    /\ pc = "execute"
    /\ \E o \in execute_trade(state, apiKey) :
          /\ state' = IF o.raised THEN ReturnedOnException(main.saved, o.state)
                      ELSE o.state
          /\ calls' = o.calls
          /\ result' = o.result
          /\ main' = [main EXCEPT
                        !.stages = Append(@, "execute"),
                        !.orders = @ + Len(CreateOrders(o.calls)),
                        !.returned = IF o.raised THEN @ + 1 ELSE @]
          /\ pc' = IF o.raised THEN "returned" ELSE NextNode(pc)
    /\ UNCHANGED <<apiKey, oracle, cycle, verdict, fill, fetch, config>>

NodeCalculatePerformance ==
    /\ pc = "score"
    /\ main' = [main EXCEPT !.stages = Append(@, "score")]
    /\ pc' = NextNode(pc)
    /\ UNCHANGED <<state, apiKey, oracle, calls, result, cycle, verdict, fill,
                   fetch, config>>

\* workflow.py lines 71-85: the result is written to the database and
\* returned; when a write raises, the state given to the cycle is returned.
SaveCycle ==
    /\ pc = "save"
    /\ \E db_ok \in BOOLEAN :
          state' = IF db_ok THEN state
                   ELSE ReturnedOnException(main.saved, state)
    /\ main' = [main EXCEPT !.returned = @ + 1]
    /\ pc' = "returned"
    /\ UNCHANGED <<apiKey, oracle, calls, result, cycle, verdict, fill, fetch,
                   config>>

\* main.py lines 63-80 and 89-105: the cycle is reported, main sleeps and
\* loops, or leaves the for loop after the last cycle.
NextIteration ==
    /\ pc = "returned"
    /\ IF main.args_cycles # 0 /\ cycle >= main.args_cycles
       THEN /\ pc' = "exited"
            /\ main' = [main EXCEPT !.exit = "finished",
                                    !.saved = state]
       ELSE /\ pc' = "start"
            /\ main' = [main EXCEPT !.saved = state]
    /\ UNCHANGED <<state, apiKey, oracle, calls, result, cycle, verdict, fill,
                   fetch, config>>

\* main.py lines 107-120: KeyboardInterrupt is no Exception, so no except
\* clause of the nodes or of run_trading_cycle catches it; main reports the
\* final statistics when `state' and `cycle' are among its locals.
Interrupt ==
    /\ pc \notin {"exited"}
    /\ pc' = "exited"
    /\ main' = [main EXCEPT !.exit = "interrupted", !.interrupted_at = pc,
                            !.summary = main.has_locals]
    /\ UNCHANGED <<state, apiKey, oracle, calls, result, cycle, verdict, fill,
                   fetch, config>>

NextMain ==
    \/ Startup
    \/ StartCycle
    \/ NodeUpdateMarketData
    \/ NodeUpdateHistoricalAnalysis
    \/ NodeGetDecision
    \/ NodeExecuteTrade
    \/ NodeCalculatePerformance
    \/ SaveCycle
    \/ NextIteration
    \/ Interrupt

SpecMain == InitMain /\ [][NextMain]_vars

(***************************************************************************)
(* SpecCycles: the loop of SpecMain with the decision node left open: the  *)
(* execute node is handed any decision of the shape the decision node      *)
(* writes, so what holds here holds for whatever get_decision stores.      *)
(***************************************************************************)
CycleDecisions ==
    {DecisionDict("both", signal, "BTC", 14, 1, 90, 110) : signal \in Signals}

CycleSnapshots == {md \in MainSnapshots : md # EmptyDict /\ md["BTC"] = IndUp}

NodeGatherFunded == GatherOn({MIN_EQUITY_FOR_MULTI_ASSET}, CycleSnapshots)

NodeAnyDecision ==
    /\ pc = "decide"
    /\ \E d \in CycleDecisions : state' = [state EXCEPT !.decision = d]
    /\ main' = [main EXCEPT !.stages = Append(@, "decide")]
    /\ pc' = NextNode(pc)
    /\ UNCHANGED <<apiKey, oracle, calls, result, cycle, verdict, fill, fetch,
                   config>>

NextCycles ==
    \/ Startup
    \/ StartCycle
    \/ NodeGatherFunded
    \/ NodeUpdateHistoricalAnalysis
    \/ NodeAnyDecision
    \/ NodeExecuteTrade
    \/ NodeCalculatePerformance
    \/ SaveCycle
    \/ NextIteration

SpecCycles == InitMain /\ [][NextCycles]_vars

(***************************************************************************)
(* SpecConfig: the import of config.py under every environment.            *)
(***************************************************************************)
InitConfig ==
    /\ pc = "import"
    /\ state = initialize_agent_state(FALSE)
    /\ apiKey = TRUE
    /\ oracle = NoOracle
    /\ calls = <<>>
    /\ result = NoStageResult
    /\ cycle = 0
    /\ verdict = NoVerdict
    /\ fill = NoFill
    /\ fetch = NoFetch
    /\ main = NoMain
    /\ config \in {[NoConfig EXCEPT !.stage = "env", !.trading_env = t,
                                    !.low_env = l] :
                     t \in EnvValues, l \in EnvValues}

ImportConfig ==
    /\ pc = "import"
    /\ config.stage = "env"
    /\ config' = Imported(config.trading_env, config.low_env)
    /\ pc' = IF config'.stage = "loaded" THEN "startup" ELSE "aborted"
    /\ UNCHANGED <<state, apiKey, oracle, calls, result, cycle, verdict, fill,
                   fetch, main>>

NextConfig == ImportConfig

SpecConfig == InitConfig /\ [][NextConfig]_vars

(***************************************************************************)
(* Properties of the decision stage, checked under Spec.                   *)
(***************************************************************************)
Range(f) == {f[i] : i \in DOMAIN f}

\* get_decision has run in the current cycle on the oracle's output.
DecisionMade == oracle.signal # "none"

OracleConforms == DecisionMade /\ oracle.ok /\ SchemaConforms(oracle)

OracleFailed == DecisionMade /\ ~(oracle.ok /\ SchemaConforms(oracle))

ActiveGateTurnsEntriesOnlyToHold ==
    (pc \in {"execute", "score"} /\ OracleConforms)
        => /\ (oracle.signal \in EntrySignals
                 /\ oracle.coin \notin SeqToSet(state.active_trading_coins))
                  => state.decision["signal"] = "hold"
           /\ \A i \in DOMAIN calls :
                 (calls[i].op = "create_order" /\ ~calls[i].reduce_only)
                    => calls[i].coin \in SeqToSet(state.active_trading_coins)
           /\ oracle.signal \in {"close", "hold"}
                  => /\ state.decision["signal"] = oracle.signal
                     /\ state.decision["coin"] = oracle.coin

\* The oracle's entry runs against the 4h trend of its coin.
CounterTrend(signal, coin, market_data) ==
    LET ind == IndicatorsOf(market_data, coin)
    IN  /\ ind.avail
        /\ \/ Trend4h(ind) = "down" /\ signal = "buy_to_enter"
           \/ Trend4h(ind) = "up" /\ signal = "sell_to_enter"

\* C6: a counter-trend entry with confidence below 0.70 never reaches the
\* execution engine as an entry, it is forced to hold with a warning recorded;
\* with confidence of at least 0.70 the same decision passes through
\* unmodified.
CounterTrendEntryPassesOnlyWithConfidence ==
    (/\ pc = "execute"
     /\ OracleConforms
     /\ oracle.coin \in SeqToSet(state.active_trading_coins)
     /\ CounterTrend(oracle.signal, oracle.coin, state.market_data))
        => IF oracle.confidence < CONFIDENCE_THRESHOLD
           THEN /\ state.decision["signal"] = "hold"
                /\ "counter_trend_rejected" \in verdict.warnings
           ELSE /\ state.decision["signal"] = oracle.signal
                /\ state.decision["coin"] = oracle.coin
                /\ state.decision["quantity"] = oracle.quantity
                /\ state.decision["leverage"] = oracle.leverage

\* C9: a rejection by the risk gate leaves the decision with signal hold, an
\* empty coin and quantity 0, and a justification that holds a system-added
\* reason in front of the oracle's own text.
RejectionKeepsOracleRationale ==
    (/\ pc = "execute"
     /\ OracleConforms
     /\ oracle.signal \in EntrySignals
     /\ oracle.coin \notin SeqToSet(state.active_trading_coins))
        => /\ state.decision["signal"] = "hold"
           /\ state.decision["coin"] = ""
           /\ state.decision["quantity"] = 0
           /\ Len(state.decision["justification"])
                 > Len(oracle.justification)
           /\ Range(oracle.justification)
                 \subseteq Range(state.decision["justification"])

\* The hold a failed oracle call ends in, and nothing submitted.
FailedOracleEndsInErrorHold ==
    OracleFailed
        => /\ state.decision["signal"] = "hold"
           /\ state.decision["quantity"] = 0
           /\ state.decision["leverage"] = 1
           /\ Get(state.decision, "profit_target") = 0
           /\ Get(state.decision, "stop_loss") = 0
           /\ "error" \in Range(state.decision["justification"])
           /\ calls = <<>>
           /\ pc # "failed"

\* C10: when the oracle call raises or returns a value that does not conform
\* to the schema, the decision stage ends with a hold of quantity 0, leverage
\* 1 and triggers 0 whose justification carries the error, and the cycle goes
\* on through the execute stage to the scoring stage with no order submitted.
FailedOracleCycleContinues ==
    /\ []FailedOracleEndsInErrorHold
    /\ [][(OracleFailed /\ pc = "execute")
             => (pc' = "score" /\ calls' = <<>>
                   /\ state'.trade_history = state.trade_history)]_vars

\* The scoring stage is reached in a cycle whose oracle call raised.
ScoreReachedAfterOracleRaised ==
    /\ pc = "score"
    /\ OracleFailed
    /\ ~oracle.ok
    /\ calls = <<>>

(***************************************************************************)
(* Properties of the execute stage, checked under SpecEngine.              *)
(***************************************************************************)
\* execute_trade_order has returned for the decision of the state.
EngineReturned == result.trade.error # "not_called"

\* C2: an entry that reaches execute_trade_order with a stop-loss or a
\* take-profit price that is not positive gets success = false and no order,
\* for every value of dry_run and with or without credentials.
EntryWithoutTriggersRefused ==
    (/\ EngineReturned
     /\ state.decision["signal"] \in EntrySignals
     /\ \/ Get(state.decision, "stop_loss_price") <= 0
        \/ Get(state.decision, "take_profit_price") <= 0)
        => /\ ~result.trade.success
           /\ \A i \in DOMAIN calls : calls[i].op # "create_order"

\* A stand-alone protective order was issued by the execute stage.
CorrectiveOrderIssued ==
    \E i \in DOMAIN calls :
        calls[i].op \in {"create_stop_loss_order", "create_take_profit_order"}

\* C3: after a live entry order succeeded, the stage issues a stand-alone
\* stop or take-profit order exactly when the position read back from the
\* exchange lacks one of its triggers; none when both are attached.
CorrectiveOrderOnlyWhenTriggerUnset ==
    (/\ EngineReturned
     /\ result.trade.success
     /\ ~result.trade.simulated
     /\ state.decision["signal"] \in EntrySignals)
        => (CorrectiveOrderIssued
              <=> \/ result.position.stop_loss_price = 0
                  \/ result.position.take_profit_price = 0)

\* C5: every entry order submitted by execute_trade_order has a quantity of
\* at least the minimum amount resolved for the coin.
EntryOrderAtLeastMinimum ==
    \A i \in DOMAIN calls :
        (calls[i].op = "create_order" /\ ~calls[i].reduce_only)
            => calls[i].amount >= result.min_amount

(***************************************************************************)
(* Properties of validate_trend_consistency, checked under SpecGate.       *)
(***************************************************************************)
\* C7: the loss-streak breaker rejects an entry exactly when the ledger holds
\* at least 3 entries with a pnl and the latest 3 of those are all losses;
\* entries without a pnl never count towards it.
BreakerIffThreeResolvedLosses ==
    (pc = "validated" /\ state.decision["signal"] \in EntrySignals)
        => ("loss_streak" \in verdict.warnings
              <=> AllLossesResolvedOnly(state.trade_history))

\* C8: when the latest 3 ledger entries with a pnl are all losses, every
\* non-hold signal is rejected, for every confidence and whether or not the
\* indicators of the coin are available.
StreakRejectsEveryNonHold ==
    (/\ pc = "validated"
     /\ state.decision["signal"] # "hold"
     /\ AllLossesResolvedOnly(state.trade_history))
        => ~verdict.valid

(***************************************************************************)
(* Properties of execute_trade_order, checked under SpecOrder.             *)
(***************************************************************************)
HoldOrderResult ==
    (pc = "ordered" /\ state.decision["signal"] = "hold")
        => /\ result.trade.success
           /\ result.trade.quantity = 0
           /\ ~result.trade.order_id
           /\ calls = <<>>

\* C11: executing a hold returns success with quantity 0 and no order id,
\* makes no exchange call of any kind and leaves the ledger unchanged.
HoldExecutesNothing ==
    /\ []HoldOrderResult
    /\ [][state.decision["signal"] = "hold"
            => /\ calls' = <<>>
               /\ state'.trade_history = state.trade_history]_vars

\* execute_trade_order has returned for a hold over a ledger with an entry.
HoldExecuted ==
    /\ pc = "ordered"
    /\ state.decision["signal"] = "hold"
    /\ result.trade.success
    /\ Len(state.trade_history) = 1

\* An entry order was submitted by the call.
EntryOrders == {i \in DOMAIN calls :
                   calls[i].op = "create_order" /\ ~calls[i].reduce_only}

\* execute_trade_order has returned for an entry whose requested quantity is
\* below the minimum amount resolved for its coin.
BelowMinimumEntryReturned ==
    /\ pc = "ordered"
    /\ state.decision["signal"] \in EntrySignals
    /\ state.decision["quantity"] < result.min_amount

\* The free balance was read from the exchange, the price too, and the
\* balance covers minimum * price / leverage.
MinimumCovered ==
    /\ apiKey
    /\ result.seen.min_price \in Prices
    /\ result.seen.min_free \notin {Unread, FetchRaises}
    /\ result.seen.min_free * TicksPerCoin * state.decision["leverage"]
          >= result.min_amount * result.seen.min_price

\* C12: an entry below the minimum is raised to the minimum only when the free
\* balance covers minimum * price / leverage; otherwise, also when the price
\* or the balance cannot be read, the result is a failure with no order; the
\* original quantity is never submitted.
BelowMinimumRaisedOnlyWhenCovered ==
    BelowMinimumEntryReturned
        => /\ ~MinimumCovered
                => (~result.trade.success /\ EntryOrders = {})
           /\ \A i \in EntryOrders :
                 calls[i].amount # state.decision["quantity"]

\* execute_trade_order has returned for an entry whose margin check read the
\* price and the free balance and found the balance below the required
\* margin with its 5% buffer.
MarginShortEntryReturned ==
    /\ pc = "ordered"
    /\ state.decision["signal"] \in EntrySignals
    /\ result.seen.margin_price \in Prices
    /\ result.seen.margin_free \notin {Unread, FetchRaises}
    /\ BelowBufferedMargin(result.seen.margin_free,
                           state.decision["leverage"],
                           result.seen.margin_quantity,
                           result.seen.margin_price)

\* C13: with the free balance below the buffered margin, either a scaled-down
\* quantity q is submitted with q >= minimum and q * price / leverage <= 0.95 *
\* free balance, or the call fails and submits nothing; no entry order is
\* submitted whose required margin exceeds the free balance.
ScaledEntryIsAffordable ==
    MarginShortEntryReturned
        => \/ ~result.trade.success /\ EntryOrders = {}
           \/ /\ EntryOrders # {}
              /\ \A i \in EntryOrders :
                    /\ calls[i].amount >= result.min_amount
                    /\ calls[i].amount * result.seen.margin_price * 20
                          <= 19 * result.seen.margin_free * TicksPerCoin
                                * state.decision["leverage"]
                    /\ calls[i].amount * result.seen.margin_price
                          <= result.seen.margin_free * TicksPerCoin
                                * state.decision["leverage"]

\* C14: a quantity scaled down for insufficient margin equals the maximum
\* affordable amount rounded down to the amount precision, which the balance,
\* price, leverage, minimum and precision alone determine.
ScaledQuantityIsFloorOfAffordable ==
    (MarginShortEntryReturned /\ EntryOrders # {})
        => \A i \in EntryOrders :
              calls[i].amount
                 = RoundAmountTruncating(
                      AffordableTimesPrice(result.seen.margin_free,
                                           state.decision["leverage"]),
                      result.seen.margin_price,
                      result.seen.amount_precision)

(***************************************************************************)
(* Properties of _resolve_order_fill, checked under SpecFill.              *)
(***************************************************************************)
Count(log, call) == Len(SelectSeq(log, LAMBDA c : c = call))

\* C15: when the order carries its own average price, the returned price is
\* that average and no exchange call is made, whatever the order's filled
\* quantity is.
OrderAverageUsedWithoutLookup ==
    (fill.stage = "returned" /\ fill.order.average # 0)
        => (fill.price = fill.order.average /\ fill.log = <<>>)

FillCallsBounded ==
    /\ Count(fill.log, "fetch_order") <= 3
    /\ Count(fill.log, "fetch_my_trades") <= 3
    /\ Count(fill.log, "fetch_ticker") <= 1
    /\ fill.attempt <= 3

TickerOnlyAsLastResort ==
    Count(fill.log, "fetch_ticker") > 0
        => /\ fill.stage = "returned"
           /\ fill.log[Len(fill.log)] = "fetch_ticker"
           /\ fill.exit_price = 0
           /\ fill.attempt = 3
           /\ Count(fill.log, "fetch_my_trades") = 3

FillReturnsPair ==
    fill.stage = "returned" => (fill.price \in Nat /\ fill.filled \in Nat)

\* C16: fill resolution always returns a (price, filled) pair, after at most
\* 3 re-fetches of the order and at most 3 aggregations of the trades, and it
\* asks the ticker at most once, as the last call, and only when the 3
\* attempts ended with the price unknown.
FillResolutionTerminatesBounded ==
    /\ [](FillCallsBounded /\ TickerOnlyAsLastResort /\ FillReturnsPair)
    /\ <>(fill.stage = "returned")

TickerAskedAfterThreeAttempts ==
    /\ fill.stage = "returned"
    /\ Count(fill.log, "fetch_order") = 3
    /\ Count(fill.log, "fetch_my_trades") = 3
    /\ Count(fill.log, "fetch_ticker") = 1
    /\ fill.price = 0

(***************************************************************************)
(* Properties of the close branch and of the fault handling of             *)
(* execute_trade_order, checked under SpecOrder.                           *)
(***************************************************************************)
CloseOrderReturned ==
    pc = "ordered" /\ state.decision["signal"] = "close"

\* C17: a close for a coin the exchange holds no position of returns
\* success = false with the not-found error and submits no order, whatever
\* dry_run is and whether or not an API key is configured.
CloseWithoutPositionIsNotFound ==
    (CloseOrderReturned
        /\ \A i \in 1..Len(result.held) :
               result.held[i].symbol # state.decision["coin"])
        => /\ ~result.trade.success
           /\ result.trade.error = "not_found"
           /\ CreateOrders(calls) = <<>>

\* The positions held that the close of the decision's coin can stop at.
HeldMatching == MatchingPositions(state.decision["coin"], result.held)

LiveCloseOfHeldPosition ==
    /\ CloseOrderReturned
    /\ ~state.dry_run
    /\ apiKey
    /\ HeldMatching # <<>>

FailureResult ==
    /\ ~result.trade.success
    /\ ~result.trade.order_id
    /\ result.trade.error # "none"

ExchangeCallRaised ==
    \/ FetchRaises \in {result.seen.min_price, result.seen.min_free,
                        result.seen.margin_price, result.seen.margin_free}
    \/ result.seen.leverage_reply \in {"bad_request", "error"}
    \/ result.seen.order_reply \notin {"none", "ok"}

OrderCallRaised ==
    \/ result.seen.leverage_reply = "error"
    \/ result.seen.order_reply \notin {"none", "ok"}

InRequestOrder(snapshots) ==
    /\ Len(snapshots) = Len(fetch.coins)
    /\ \A i \in 1..Len(snapshots) :
          /\ snapshots[i].coin = fetch.coins[i]
          /\ snapshots[i].success = (fetch.coins[i] \notin fetch.failed)

SnapshotsInRequestOrder ==
    fetch.stage = "returned"
        => /\ InRequestOrder(fetch.structured)
           /\ InRequestOrder(fetch.coin_results)

EachCoinFetchedOnce ==
    /\ Len(fetch.completed) + Cardinality(fetch.pending) = Len(fetch.coins)
    /\ \A i, j \in 1..Len(fetch.completed) :
          fetch.completed[i] = fetch.completed[j] => i = j
    /\ \A i \in 1..Len(fetch.completed) :
          fetch.completed[i] \notin fetch.pending

\* C20: whatever the order in which the workers complete and whichever coins
\* fail, get_market_data returns one snapshot per requested coin in the
\* requested order, with success = false exactly for the coins that failed;
\* every coin is fetched once and the batch always returns.
MarketDataInRequestOrder ==
    /\ [](SnapshotsInRequestOrder /\ EachCoinFetchedOnce)
    /\ <>(fetch.stage = "returned")

ReversedCompletionWithOneFailure ==
    /\ fetch.stage = "returned"
    /\ Len(fetch.coins) = 3
    /\ fetch.completed[1] = fetch.coins[3]
    /\ fetch.completed[3] = fetch.coins[1]
    /\ fetch.failed = {fetch.coins[2]}
    /\ ~fetch.structured[2].success
    /\ fetch.structured[1].success
    /\ fetch.structured[3].success

(***************************************************************************)
(* Properties of the configuration, checked under SpecConfig.              *)
(***************************************************************************)
\* C27: once config.py is imported without an error, every coin of
\* TRADING_COINS and of LOW_EQUITY_COINS is a supported coin: an unsupported
\* coin in either list aborts the startup.
EveryConfiguredCoinIsSupported ==
    config.stage = "loaded"
        => /\ \A i \in 1..Len(config.TRADING_COINS) :
                 config.TRADING_COINS[i] \in ALL_SUPPORTED_COINS
           /\ \A i \in 1..Len(config.LOW_EQUITY_COINS) :
                 config.LOW_EQUITY_COINS[i] \in ALL_SUPPORTED_COINS

(***************************************************************************)
(* Properties of the main loop, checked under SpecMain.                    *)
(***************************************************************************)
\* A stage of a cycle with a failed snapshot, when no interrupt arrives,
\* hands over to the next stage of the graph.
FailedSnapshotStageHandsOver ==
    pc \in Nodes /\ main'.no_snapshot # {} /\ pc' # "exited"
        => pc' = NextNode(pc) /\ main'.stages = Append(main.stages, pc)

TierFollowsThisCyclesEquity ==
    pc = "decide"
        => /\ oracle = NoOracle
           /\ main.stages = <<"gather", "analysis">>
           /\ state.account_value = main.equity
           /\ (state.active_trading_coins = LOW_EQUITY_COINS
                  <=> main.equity < MIN_EQUITY_FOR_MULTI_ASSET)
           /\ (state.active_trading_coins = TRADING_COINS
                  <=> main.equity >= MIN_EQUITY_FOR_MULTI_ASSET)

\* The second cycle reaches the decision stage with an equity at the
\* threshold after a first cycle in the restricted tier.
FullTierAfterRestrictedCycle ==
    /\ pc = "decide"
    /\ cycle = 2
    /\ main.prev_low
    /\ main.equity = MIN_EQUITY_FOR_MULTI_ASSET
    /\ state.active_trading_coins = TRADING_COINS

\* C23: once the gather stage of a cycle has run, it has logged one
\* tier-change event when the cycle's tier differs from the tier of the cycle
\* before (the full tier before the first cycle), and none otherwise.
TierEventExactlyOnChange ==
    pc \in Nodes \ {"gather"}
        => main.tier_events = (IF main.low # main.prev_low THEN 1 ELSE 0)

\* C25: when an interrupt ends the process after a cycle has started, it
\* arrived between two cycles (every started cycle ran its stages and
\* returned), and the final summary was reported.
InterruptOnlyBetweenCycles ==
    pc = "exited" /\ main.exit = "interrupted" /\ cycle > 0
        => /\ main.interrupted_at \in {"start", "returned"}
           /\ main.returned = cycle
           /\ main.summary

StageOrder == <<"gather", "analysis", "decide", "execute", "score">>

\* C30: the stages a cycle has run are always the first stages of gather,
\* analysis, decide, execute, score, in that order and each once; the stage
\* about to run is the next of that list, the result is saved after all
\* five, and the decision the execute stage is given is the one the decision
\* stage made of this cycle's oracle output.
StagesRunInFixedOrder ==
    /\ main.stages = SubSeq(StageOrder, 1, Len(main.stages))
    /\ pc \in Nodes => pc = StageOrder[Len(main.stages) + 1]
    /\ pc = "save" => main.stages = StageOrder
    /\ pc = "execute"
          => oracle # NoOracle /\ state.decision = get_decision(state, oracle)

\* The second cycle has run its five stages on an oracle output of its own.
SecondCycleRanAllStages ==
    /\ pc = "save"
    /\ cycle = 2
    /\ main.stages = StageOrder
    /\ oracle.ok /\ oracle.signal = "close"
    /\ state.decision["signal"] = "hold"

(***************************************************************************)
(* Properties of the loop with any gated decision, checked under           *)
(* SpecCycles.                                                             *)
(***************************************************************************)
\* C24: a cycle is running only when all cycles before it have returned,
\* the execute stage of one cycle submits at most one entry or close order,
\* and the orders submitted so far are never more than the cycles started.
OneOrderPerCycleNoOverlap ==
    /\ pc \in Nodes \cup {"save"} => main.returned = cycle - 1
    /\ pc \notin Nodes \cup {"save"} => main.returned = cycle
    /\ Len(CreateOrders(calls)) <= 1
    /\ main.orders <= cycle

\* Both cycles submitted an order, the second after the first had returned.
OrderInEachOfTwoCycles ==
    /\ pc = "score"
    /\ cycle = 2
    /\ main.returned = 1
    /\ Len(CreateOrders(calls)) = 1
    /\ main.orders = 2

(***************************************************************************)
(* Further properties of execute_trade_order and the execute stage,        *)
(* checked under SpecOrder.                                                *)
(***************************************************************************)
\* C26: in dry-run mode the order tool and the execute stage make no
\* state-changing exchange call, whatever the decision, and every result
\* that reports success is marked as simulated; the protective orders of a
\* simulated entry are simulated as well.
DryRunChangesNothing ==
    state.dry_run
        => /\ calls = <<>>
           /\ result.trade.success => result.trade.simulated
           /\ result.protection \in {"not_called", "simulated"}

\* A dry run with credentials configured returned a simulated entry from the
\* execute stage.
DryRunEntrySimulated ==
    /\ state.dry_run
    /\ apiKey
    /\ pc = "score"
    /\ state.decision["signal"] = "buy_to_enter"
    /\ result.trade.success
    /\ result.trade.simulated
    /\ result.protection = "simulated"
    /\ calls = <<>>

\* C29: an order the exchange refuses with its insufficient-funds error is
\* returned as a failure of the class insufficient-funds, and a refusal with
\* any other exchange error as the class exchange.
InsufficientFundsHasItsOwnClass ==
    /\ result.seen.order_reply = "insufficient_funds"
          => result.trade.error = "insufficient_funds"
    /\ result.seen.order_reply = "exchange"
          => result.trade.error = "exchange"

(***************************************************************************)
(* Further properties of validate_trend_consistency, checked under         *)
(* SpecGate.                                                               *)
(***************************************************************************)
GateIndicators == IndicatorsOf(state.market_data, state.decision["coin"])

EmaAndMacdUp ==
    GateIndicators.ema20 > GateIndicators.ema50 /\ GateIndicators.macd > 0

EmaAndMacdDown ==
    GateIndicators.ema20 < GateIndicators.ema50 /\ GateIndicators.macd < 0

AgainstTheTrend ==
    /\ state.decision["signal"] \in EntrySignals
    /\ GateIndicators.avail
    /\ \/ state.decision["signal"] = "buy_to_enter" /\ EmaAndMacdDown
       \/ state.decision["signal"] = "sell_to_enter" /\ EmaAndMacdUp

\* C28: for an entry on a coin whose 4h indicators are available the trend is
\* up iff EMA20 > EMA50 and MACD > 0, down iff EMA20 < EMA50 and MACD < 0,
\* and neutral otherwise; when the loss-streak breaker has not triggered, the
\* verdict is invalid exactly for an entry against the trend with confidence
\* below 70 percent, an entry against the trend at 70 percent or more is
\* valid with the override warning recorded, and nothing is rejected in a
\* neutral trend.
TrendRuleAsStated ==
    pc = "validated"
        => /\ (state.decision["signal"] \in EntrySignals /\ GateIndicators.avail)
                => /\ verdict.trend = "up" <=> EmaAndMacdUp
                   /\ verdict.trend = "down" <=> EmaAndMacdDown
                   /\ verdict.trend = "neutral"
                         <=> ~EmaAndMacdUp /\ ~EmaAndMacdDown
           /\ "loss_streak" \notin verdict.warnings
                => /\ ~verdict.valid
                         <=> (AgainstTheTrend
                                /\ state.decision["confidence"]
                                      < CONFIDENCE_THRESHOLD)
                   /\ (AgainstTheTrend
                          /\ state.decision["confidence"]
                                >= CONFIDENCE_THRESHOLD)
                         => /\ verdict.valid
                            /\ "counter_trend_override" \in verdict.warnings
                   /\ verdict.trend = "neutral" => verdict.valid

\* A short entry in an up trend at a confidence of exactly 70 percent was
\* passed with the override warning.
ShortInUpTrendAtThreshold ==
    /\ pc = "validated"
    /\ state.decision["signal"] = "sell_to_enter"
    /\ GateIndicators = IndUp
    /\ state.decision["confidence"] = CONFIDENCE_THRESHOLD
    /\ verdict.valid
    /\ verdict.warnings = {"counter_trend_override"}

(***************************************************************************)
(* Properties of the session state carried from cycle to cycle, checked    *)
(* under SpecMain and SpecCycles.                                          *)
(***************************************************************************)
\* C31: the gather stage leaves the elapsed-time counter 3 minutes after its
\* value at the start of the cycle, whether or not the market data could be
\* fetched, and when a cycle has returned to main the counter is 3 times the
\* number of cycles run.
ElapsedIsThreePerCycle ==
    /\ pc \in Nodes \ {"gather"}
          => state.minutes_elapsed = main.saved.minutes_elapsed + 3
    /\ pc = "returned" => state.minutes_elapsed = 3 * cycle

\* C36: when all five stages of a cycle ran, the state run_trading_cycle
\* hands back to main holds what the cycle produced, also when a database
\* write failed afterwards: the elapsed counter advanced by 3, the account
\* value of this cycle, and the ledger entry of an executed order.
ReturnedStateKeepsTheCycle ==
    (pc = "returned" /\ main.stages = StageOrder)
        => /\ state.minutes_elapsed = main.saved.minutes_elapsed + 3
           /\ state.account_value = main.equity
           /\ state.active_trading_coins # <<>>
           /\ result.trade.success
                 => Len(state.trade_history)
                        = Len(main.saved.trade_history) + 1

\* One step of the program never removes or reorders ledger entries and
\* appends at most one, in the execute stage, for a decision other than hold
\* whose execution reported success.
LedgerStep ==
    /\ Len(state'.trade_history) >= Len(state.trade_history)
    /\ SubSeq(state'.trade_history, 1, Len(state.trade_history))
          = state.trade_history
    /\ state'.trade_history # state.trade_history
          => /\ Len(state'.trade_history) = Len(state.trade_history) + 1
             /\ pc = "execute"
             /\ state.decision["signal"] # "hold"
             /\ result'.trade.success

\* C32: the ledger is append-only across cycles, grows by at most one entry
\* per cycle, and an entry is appended only for a non-hold decision executed
\* with success.
LedgerAppendOnly ==
    /\ [][LedgerStep]_vars
    /\ [](Len(state.trade_history) <= Len(main.saved.trade_history) + 1)
    /\ [](Len(state.trade_history) <= cycle)

\* The second cycle appended its entry after the first cycle's, and a
\* database write of the first cycle had failed.
SecondEntryAppended ==
    /\ pc = "score"
    /\ cycle = 2
    /\ Len(state.trade_history) = 2
    /\ state.trade_history[1].timestamp = 3
    /\ state.trade_history[2].timestamp = 3

\* C33: in a cycle whose balance fetch failed, the active coins are not
\* more than the tier of the last equity read allows: after a cycle in the
\* restricted tier they are still the restricted list.
FailedBalanceKeepsTier ==
    (pc \in Nodes \ {"gather"} /\ ~main.balance_read /\ main.prev_low)
        => state.active_trading_coins = LOW_EQUITY_COINS

(***************************************************************************)
(* Properties of execute_trade_order's checks and of the close branch,     *)
(* checked under SpecOrder.                                                *)
(***************************************************************************)
\* C34: when an entry is refused by a check made before the order is
\* submitted (below the minimum without the funds for it, a missing trigger
\* price, not enough margin), no state-changing call has been made: no
\* set_position_mode, no set_leverage, no create_order.
RefusedEntryMadeNoCall ==
    (/\ pc \in {"ordered", "score"}
     /\ state.decision["signal"] \in EntrySignals
     /\ result.trade.error \in {"below_minimum", "no_stop_loss_take_profit",
                                "insufficient_margin"})
        => calls = <<>>

(***************************************************************************)
(* Further properties of the decision and gather stages, checked under     *)
(* SpecMain.                                                               *)
(***************************************************************************)
OracleBreaksNoRule ==
    /\ oracle.ok
    /\ SchemaConforms(oracle)
    /\ \/ oracle.signal = "close"
       \/ /\ oracle.signal \in EntrySignals
          /\ oracle.tp > 0 /\ oracle.sl > 0 /\ oracle.quantity > 0
          /\ oracle.coin \in SeqToSet(state.active_trading_coins)

\* C35: a schema-conforming oracle decision that breaks no risk rule reaches
\* the execute stage with its signal, coin, quantity, leverage and trigger
\* prices unchanged, under the keys the execute stage reads; the fallback
\* hold is stored only when the oracle call itself failed.
CleanDecisionPassesUnchanged ==
    pc = "execute"
        => /\ OracleBreaksNoRule
                => /\ state.decision["signal"] = oracle.signal
                   /\ state.decision["coin"] = oracle.coin
                   /\ state.decision["quantity"] = oracle.quantity
                   /\ state.decision["leverage"] = oracle.leverage
                   /\ Get(state.decision, "take_profit_price") = oracle.tp
                   /\ Get(state.decision, "stop_loss_price") = oracle.sl
           /\ state.decision = FallbackDecision => ~oracle.ok

(***************************************************************************)
(* A further property of the configuration, checked under SpecConfig.      *)
(***************************************************************************)
\* C37: once config.py is imported, every coin of the restricted list
\* LOW_EQUITY_COINS is a coin of the trading universe TRADING_COINS, the
\* coins market data is gathered for.
RestrictedCoinsWithinUniverse ==
    config.stage = "loaded"
        => \A i \in 1..Len(config.LOW_EQUITY_COINS) :
              \E j \in 1..Len(config.TRADING_COINS) :
                  config.LOW_EQUITY_COINS[i] = config.TRADING_COINS[j]

(***************************************************************************)
(* Properties of the protective orders placed after an entry, checked      *)
(* under SpecOrder.                                                        *)
(***************************************************************************)
\* The stop-loss order of this call exists on the exchange: the take-profit
\* request is sent only after create_stop_loss_order has returned.
StopLossOrderCreated ==
    \E i \in 1..Len(calls) : \E j \in (i + 1)..Len(calls) :
        /\ calls[i].op = "create_stop_loss_order"
        /\ calls[j].op = "create_take_profit_order"

\* C38: set_stop_loss_take_profit is all-or-nothing: when it reports a
\* failure, no protective order created by the call remains on the
\* exchange; when it reports a success outside the simulation, both the
\* stop-loss and the take-profit request it was given were sent.
ProtectionAllOrNothing ==
    pc \in {"ordered", "score"}
        => /\ result.protection = "failed" => ~StopLossOrderCreated
           /\ (result.protection = "ok"
                  /\ Get(state.decision, "stop_loss") # 0
                  /\ Get(state.decision, "profit_target") # 0)
                 => StopLossOrderCreated

(***************************************************************************)
(* A property of the position a close selects, checked under SpecOrder.    *)
(***************************************************************************)
\* C39: whenever a close submits an order, the position it selected among
\* those read from the exchange is in the market of the order: the order's
\* side and size are never taken from a position of another market.
CloseSelectsItsOwnMarket ==
    (CloseOrderReturned /\ result.seen.positions_read
        /\ CreateOrders(calls) # <<>>)
        => LET selected == MatchingPositions(state.decision["coin"],
                                             result.seen.positions)[1]
           IN  selected.symbol = CreateOrders(calls)[1].coin

(***************************************************************************)
(* A property of the tier flags of the session, checked under SpecMain.    *)
(***************************************************************************)
\* C40: after every gather stage the flags _low_equity_mode and
\* _low_equity_mode_logged are equal, and _low_equity_mode, which the
\* decision stage reads to choose its prompt, is true exactly when the
\* active symbol set is the restricted one.
TierFlagsAgreeWithActiveSet ==
    pc \in Nodes \ {"gather"}
        => /\ state.low_equity_mode = state.low_equity_mode_logged
           /\ state.low_equity_mode
                 <=> state.active_trading_coins = LOW_EQUITY_COINS

FullTierRestoredWithFlagsCleared ==
    /\ pc = "decide"
    /\ cycle = 2
    /\ main.saved.low_equity_mode
    /\ main.saved.low_equity_mode_logged
    /\ ~state.low_equity_mode
    /\ ~state.low_equity_mode_logged
    /\ state.active_trading_coins = TRADING_COINS

====
